---- MODULE Spec2Model ----
(***************************************************************************)
(* Model of the streaming chat hook useChat                                *)
(* (src/frontend/src/hooks/useChat.js): the message list, the single       *)
(* flight gate canSendMessage, the streaming message id ref, the push      *)
(* (WebSocket) listener and the pull (SSE over fetch) read loop.           *)
(*                                                                         *)
(* Texts are sequences of tokens; "+" on JS strings is \o.  One step of    *)
(* the model is one task of the browser event loop: a handler runs to its  *)
(* next await, React state set in a task is visible to the next task.      *)
(* Free identifiers of the hook that no import binds (projectId, line 669) *)
(* are taken to be bound by the host page.                                 *)
(***************************************************************************)
EXTENDS Integers, Sequences, FiniteSets, TLC

\* ---------------------------------------------------------------- bounds
MaxTurns == 2        \* submissions that pass the gate
MaxContent == 2      \* tokens of accumulated content that frames may build
MaxLines == 1        \* complete lines one read of the pull body yields
MaxHistory == 52     \* messages in the list when a history is built

\* ------------------------------------------------------------ vocabulary
Null == <<"null", 0>>
Undefined == <<"undefined">>          \* the JS value undefined, as a text
Whitespace == {" "}
Inputs == {<<"q", " ">>}              \* what the user may type
Payloads == {<<"a">>, <<"b">>}        \* stream_chunk content / record result
\* payloads are opaque to the hook: the one that opens a message's content is
\* named "a" (the runs that open with "b" are these runs with a and b swapped)
FirstToken == "a"
FullContents == {<<"c">>}
Sources == <<"source 1">>             \* data.sources of a stream_complete
CancelNotice == <<"\n", "\n", "[generation stopped]">>      \* line 426
GenericError == <<"generic: retry">>                      \* line 226
AuthError == <<"auth expired: log in again">>             \* line 233
TimeoutError == <<"timeout: simplify or retry later">>    \* line 239
RateLimitError == <<"rate limit: wait and retry">>        \* line 245
ApiErrorNotice == <<"[handleAPIError.userMessage]">>
\* an error frame's message, as the list of the substrings it contains
Missing == <<"<no message>">>
ErrorMessages == {<<"rate limit", "timeout">>}

StreamMsgId(n) == <<"streaming", n>>
UserMsgId(n) == <<"user", n>>
ErrorMsgId(n) == <<"error", n>>
\* an invocation of handleSendMessage that has returned
Returned == [pc |-> "done", input |-> <<>>, ws |-> FALSE, sid |-> Null,
             fullResponse |-> <<>>]
ConversationIds == {<<"conv", 1>>}

\* ---------------------------------------------------------------- state
VARIABLES
  messages,                \* useState([])            line 42
  inputValue,              \* useState("")            line 43
  canSendMessage,          \* useState(true)          line 45
  capturedCanSendMessage,  \* canSendMessage in handleSendMessage's closure
  streamingMessageIdRef,   \* useRef(null)            line 50
  currentWebSocketRef,     \* useRef(null)            line 51
  conversationId,          \* prop of the hook        line 19
  wsConnected,             \* useWebSocket().isConnected
  calls,                   \* running invocations of handleSendMessage
  wsStreams,               \* turns whose answer the push channel streams
  frameLog,                \* content frames applied to the streaming message
  trimmedChatHistory,      \* chat_history of a request (HistorySpec only)
  args,                    \* arguments of the function a specification applies
  returned,                \* what that function returned
  contentProp,             \* the content prop of RealTimeTyping line 9
  displayedContent,        \* useState("")                      line 15
  currentIndex,            \* useState(0)                       line 16
  isTyping,                \* useState(false)                   line 17
  typingTimerRef,          \* the timeout that is pending       line 18
  previousContentRef,      \* useRef("")                        line 19
  steps,                   \* useThinkingProcess: useState([])  line 921
  currentStep,             \* useState(null)                    line 922
  isThinking,              \* useState(false)                   line 923
  stepIdCounter,           \* useRef(0)                         line 924
  stepTimers,              \* useRef(new Map())                 line 925
  timeouts,                \* the timeouts that are pending
  flow,                    \* how many times startThinking has run
  conversations,           \* useConversations: useState([])    line 9
  loadingConversations,    \* loading, useState(false)          line 10
  hasMore,                 \* useState(true)                    line 12
  sessionStorage,          \* the conversation_* items of sessionStorage
  idCounter,               \* how many conversation ids were generated
  deleteCalls,             \* the invocations of deleteConversation
  event                    \* the operation that made the last step

vars == <<messages, inputValue, canSendMessage, capturedCanSendMessage,
          streamingMessageIdRef,
          currentWebSocketRef, conversationId, wsConnected, calls,
          wsStreams, frameLog, trimmedChatHistory, args, returned,
          contentProp, displayedContent, currentIndex, isTyping, typingTimerRef,
          previousContentRef, steps, currentStep, isThinking, stepIdCounter,
          stepTimers, timeouts, flow, conversations, loadingConversations,
          hasMore, sessionStorage, idCounter, deleteCalls, event>>

\* the state of the RealTimeTyping component
typingVars == <<contentProp, displayedContent, currentIndex, isTyping,
                typingTimerRef, previousContentRef>>

\* the state of the useThinkingProcess hook
thinkingVars == <<steps, currentStep, isThinking, stepIdCounter, stepTimers,
                  timeouts, flow>>

\* the state of the useConversations hook
conversationsVars == <<conversations, loadingConversations, hasMore,
                       sessionStorage, idCounter, deleteCalls>>

\* the state of the components other than the chat hook
components == <<typingVars, thinkingVars, conversationsVars>>

\* lines 9-19 of RealTimeTyping.js: the component as mounted without content
TypingConstructed ==
  /\ contentProp = <<>>
  /\ displayedContent = <<>>
  /\ currentIndex = 0
  /\ isTyping = FALSE
  /\ typingTimerRef = <<>>
  /\ previousContentRef = <<>>

\* null where a string may stand (currentStep)
NoStep == "null"

\* lines 921-925 of useChat.js: useThinkingProcess as constructed
ThinkingConstructed ==
  /\ steps = <<>>
  /\ currentStep = NoStep
  /\ isThinking = FALSE
  /\ stepIdCounter = 0
  /\ stepTimers = <<>>
  /\ timeouts = {}
  /\ flow = 0

\* lines 9-13 of part_000: useConversations as constructed, in a session
\* that has stored no conversation; error and nextCursor are only ever set
\* to null
ConversationsConstructed ==
  /\ conversations = <<>>
  /\ loadingConversations = FALSE
  /\ hasMore = TRUE
  /\ sessionStorage = {}
  /\ idCounter = 0
  /\ deleteCalls = {}

ComponentsConstructed ==
  TypingConstructed /\ ThinkingConstructed /\ ConversationsConstructed

\* -------------------------------------------------------------- helpers
RECURSIVE TrimStart(_)
TrimStart(s) ==
  IF s # <<>> /\ Head(s) \in Whitespace THEN TrimStart(Tail(s)) ELSE s

RECURSIVE TrimEnd(_)
TrimEnd(s) ==
  IF s # <<>> /\ s[Len(s)] \in Whitespace
  THEN TrimEnd(SubSeq(s, 1, Len(s) - 1)) ELSE s

Trim(s) == TrimEnd(TrimStart(s))

\* a lookup that takes the first assistant message, whatever its id
FindIndex_FirstAssistant(msgs, id) ==
  IF \E i \in 1..Len(msgs) : msgs[i].type = "assistant"
  THEN CHOOSE i \in 1..Len(msgs) :
         /\ msgs[i].type = "assistant"
         /\ \A j \in 1..(i - 1) : msgs[j].type # "assistant"
  ELSE 0

\* Array.prototype.findIndex on msg.id; 0 stands for -1
FindIndex(msgs, id) ==
  IF \E i \in 1..Len(msgs) : msgs[i].id = id
  THEN CHOOSE i \in 1..Len(msgs) :
         /\ msgs[i].id = id
         /\ \A j \in 1..(i - 1) : msgs[j].id # id
  ELSE 0

NewMessage(id, type, content, loading, streaming, error) ==
  [id |-> id, type |-> type, content |-> content, isLoading |-> loading,
   isStreaming |-> streaming, isError |-> error, sources |-> Undefined]

\* lines 790-805: useCallback keeps handleSendMessage until one of its
\* dependencies changes; canSendMessage is not among them, so the closure
\* holds the value of the last render in which inputValue, conversationId,
\* wsConnected or messages (a new array whenever setMessages ran) changed
Memoized(setMessagesCalled) ==
  capturedCanSendMessage' =
    IF \/ setMessagesCalled
       \/ inputValue' # inputValue
       \/ conversationId' # conversationId
       \/ wsConnected' # wsConnected
    THEN canSendMessage'
    ELSE capturedCanSendMessage

\* ------------------------------------------- updaters given to setMessages
\* a listener that shows the last chunk only
ApplyChunk_Replaces(msgs, id, content) ==
  LET i == FindIndex(msgs, id) IN
  IF i = 0 THEN msgs
  ELSE [msgs EXCEPT ![i].content = content,
                    ![i].isLoading = TRUE,
                    ![i].isStreaming = TRUE]

\* stream_chunk: append the chunk to the streaming message
ApplyChunk(msgs, id, content) ==
  LET i == FindIndex(msgs, id) IN
  IF i = 0 THEN msgs
  ELSE LET currentContent ==
             IF msgs[i].content = Undefined THEN <<>> ELSE msgs[i].content
       IN [msgs EXCEPT ![i].content = currentContent \o content,
                       ![i].isLoading = TRUE,
                       ![i].isStreaming = TRUE]

\* a listener that appends fullContent to what the chunks built
ApplyComplete_Appends(msgs, id, fullContent) ==
  LET i == FindIndex(msgs, id) IN
  IF i = 0 THEN msgs
  ELSE [msgs EXCEPT ![i].content = msgs[i].content \o fullContent,
                    ![i].sources = Sources,
                    ![i].isLoading = FALSE,
                    ![i].isStreaming = FALSE]

\* stream_complete: the frame's fullContent becomes the content
ApplyComplete(msgs, id, fullContent) ==
  LET i == FindIndex(msgs, id) IN
  IF i = 0 THEN msgs
  ELSE [msgs EXCEPT ![i].content = fullContent,
                    ![i].sources = Sources,
                    ![i].isLoading = FALSE,
                    ![i].isStreaming = FALSE]

\* String.prototype.includes on data.message (optional chaining: a missing
\* message includes nothing)
Includes(message, part) ==
  message # Missing /\ \E i \in 1..Len(message) : message[i] = part

\* a classification that looks for the rate limit before the timeout
ErrorContent_RateLimitFirst(message) ==
  IF (message # Missing /\ \E i \in 1..Len(message) : message[i] = "401")
     \/ (message # Missing
         /\ \E i \in 1..Len(message) : message[i] = "Unauthorized")
  THEN AuthError
  ELSE IF message # Missing
          /\ \E i \in 1..Len(message) :
               message[i] \in {"rate limit", "limit (ko)"}
       THEN RateLimitError
  ELSE IF message # Missing
          /\ \E i \in 1..Len(message) :
               message[i] \in {"timeout", "time over (ko)"}
       THEN TimeoutError
  ELSE GenericError

\* the text shown for an error frame
ErrorContent(message) ==
  IF Includes(message, "401") \/ Includes(message, "Unauthorized")
  THEN AuthError
  ELSE IF Includes(message, "timeout") \/ Includes(message, "time over (ko)")
       THEN TimeoutError
  ELSE IF Includes(message, "rate limit") \/ Includes(message, "limit (ko)")
       THEN RateLimitError
  ELSE GenericError

ApplyError(msgs, id, message) ==
  LET i == FindIndex(msgs, id) IN
  IF i = 0 THEN msgs
  ELSE [msgs EXCEPT ![i].content = ErrorContent(message),
                    ![i].isLoading = FALSE,
                    ![i].isStreaming = FALSE,
                    ![i].isError = TRUE]

\* a record handler that starts over when there is content already
ApplyRecord_Restarts(msgs, id, chunk) ==
  LET i == FindIndex(msgs, id) IN
  IF i = 0 THEN msgs
  ELSE [msgs EXCEPT ![i].content = IF msgs[i].content = <<>> THEN chunk
                                   ELSE <<>>,
                    ![i].isLoading = TRUE,
                    ![i].isStreaming = TRUE]

\* handleStreamingResponse's updater (pull transport record)
ApplyRecord(msgs, id, chunk) ==
  LET i == FindIndex(msgs, id) IN
  IF i = 0 THEN msgs
  ELSE [msgs EXCEPT ![i].content = msgs[i].content \o chunk,
                    ![i].isLoading = TRUE,
                    ![i].isStreaming = TRUE]

\* a completion that keeps what the records built
ApplyResult_KeepsShown(msgs, id, result) ==
  LET i == FindIndex(msgs, id) IN
  IF i = 0 THEN msgs
  ELSE [msgs EXCEPT ![i].isLoading = FALSE,
                    ![i].isStreaming = FALSE]

\* handleStreamingComplete's updater
ApplyResult(msgs, id, result) ==
  LET i == FindIndex(msgs, id) IN
  IF i = 0 THEN msgs
  ELSE [msgs EXCEPT ![i].content = result,
                    ![i].isLoading = FALSE,
                    ![i].isStreaming = FALSE]

\* a stop that drops the partial content
ApplyStop_DropsPartial(msgs, id) ==
  LET i == FindIndex(msgs, id) IN
  IF i = 0 THEN msgs
  ELSE [msgs EXCEPT ![i].content = CancelNotice,
                    ![i].isLoading = FALSE,
                    ![i].isStreaming = FALSE]

\* handleStopGeneration's updater
ApplyStop(msgs, id) ==
  LET i == FindIndex(msgs, id) IN
  IF i = 0 THEN msgs
  ELSE [msgs EXCEPT ![i].content = msgs[i].content \o CancelNotice,
                    ![i].isLoading = FALSE,
                    ![i].isStreaming = FALSE]

\* a catch that drops every assistant message
ApplyCatch_DropsAssistants(msgs, id, errorMessage) ==
  SelectSeq(msgs, LAMBDA m : m.type # "assistant") \o <<errorMessage>>

\* the catch block's updater: drop the message named id, add the error message
ApplyCatch(msgs, id, errorMessage) ==
  SelectSeq(msgs, LAMBDA m : m.id # id) \o <<errorMessage>>

ContentOf(msgs, id) ==
  IF FindIndex(msgs, id) = 0 THEN <<>> ELSE msgs[FindIndex(msgs, id)].content

\* the payloads the model delivers to the message named id: within
\* MaxContent in all, and opened by FirstToken
CanDeliver(msgs, id, text) ==
  \/ FindIndex(msgs, id) = 0
  \/ /\ Len(ContentOf(msgs, id)) + Len(text) <= MaxContent
     /\ (ContentOf(msgs, id) = <<>> /\ text # <<>>) => text[1] = FirstToken

\* ------------------------------------------------- handleWebSocketMessage
FrameTypes == {"malformed", "stream_start", "progress", "stream_chunk",
               "stream_complete", "error", "other"}

\* what a frame of each type carries
FrameData(type) ==
  CASE type = "stream_chunk" -> Payloads
    [] type = "stream_complete" -> FullContents \cup {Undefined}
    [] type = "error" -> ErrorMessages
    [] OTHER -> {<<>>}

\* a listener whose progress frames end the loading state of the message
handleWebSocketMessage_ProgressShown(origin, type, data) ==
  LET currentStreamingId == streamingMessageIdRef
      found == FindIndex(messages, currentStreamingId) # 0
  IN
  /\ wsConnected
  /\ origin \in wsStreams
  /\ event' = "handleWebSocketMessage"
  /\ CASE type = "stream_chunk" /\ currentStreamingId # Null ->
            /\ CanDeliver(messages, currentStreamingId, data)
            /\ messages' = ApplyChunk(messages, currentStreamingId, data)
            /\ frameLog' = IF found
                           THEN Append(frameLog, <<"stream_chunk", data>>)
                           ELSE frameLog
            /\ UNCHANGED streamingMessageIdRef
       [] type = "stream_complete" /\ currentStreamingId # Null ->
            /\ messages' = ApplyComplete(messages, currentStreamingId, data)
            /\ streamingMessageIdRef' = Null
            /\ frameLog' = <<>>
       [] type = "error" /\ currentStreamingId # Null ->
            /\ messages' = ApplyError(messages, currentStreamingId, data)
            /\ streamingMessageIdRef' = Null
            /\ frameLog' = <<>>
       [] type = "progress" /\ found ->
            /\ messages' =
                 [messages EXCEPT
                    ![FindIndex(messages, currentStreamingId)].isLoading =
                      FALSE]
            /\ UNCHANGED <<streamingMessageIdRef, frameLog>>
       [] OTHER ->
            UNCHANGED <<messages, streamingMessageIdRef, frameLog>>
  /\ UNCHANGED <<inputValue, canSendMessage, currentWebSocketRef,
                 conversationId, wsConnected, calls, wsStreams>>
  /\ Memoized(currentStreamingId # Null /\
              type \in {"stream_chunk", "stream_complete", "error",
                        "progress"})
  /\ UNCHANGED <<trimmedChatHistory, args, returned, components>>

\* lines 111-276: one frame of the push stream of turn origin reaches the
\* listener, which is registered while the channel is connected (line 278)
handleWebSocketMessage(origin, type, data) ==
  LET currentStreamingId == streamingMessageIdRef
      found == FindIndex(messages, currentStreamingId) # 0
  IN
  /\ wsConnected
  /\ origin \in wsStreams
  /\ event' = "handleWebSocketMessage"
  /\ CASE type = "stream_chunk" /\ currentStreamingId # Null ->
            /\ CanDeliver(messages, currentStreamingId, data)
            /\ messages' = ApplyChunk(messages, currentStreamingId, data)
            /\ frameLog' = IF found
                           THEN Append(frameLog, <<"stream_chunk", data>>)
                           ELSE frameLog
            /\ UNCHANGED streamingMessageIdRef
       [] type = "stream_complete" /\ currentStreamingId # Null ->
            /\ messages' = ApplyComplete(messages, currentStreamingId, data)
            /\ streamingMessageIdRef' = Null
            /\ frameLog' = <<>>
       [] type = "error" /\ currentStreamingId # Null ->
            /\ messages' = ApplyError(messages, currentStreamingId, data)
            /\ streamingMessageIdRef' = Null
            /\ frameLog' = <<>>
       [] OTHER ->
            UNCHANGED <<messages, streamingMessageIdRef, frameLog>>
  /\ UNCHANGED <<inputValue, canSendMessage, currentWebSocketRef,
                 conversationId, wsConnected, calls, wsStreams>>
  /\ Memoized(currentStreamingId # Null /\
              type \in {"stream_chunk", "stream_complete", "error"})
  /\ UNCHANGED <<trimmedChatHistory, args, returned, components>>

\* ---------------------------------------------------- handleStopGeneration
\* a stop that leaves the streaming message id in place
handleStopGeneration_KeepsRef ==
  LET currentStreamingId == streamingMessageIdRef IN
  /\ currentWebSocketRef' = Null
  /\ IF currentStreamingId # Null
     THEN /\ messages' = ApplyStop(messages, currentStreamingId)
          /\ frameLog' = <<>>
          /\ UNCHANGED streamingMessageIdRef
     ELSE UNCHANGED <<messages, streamingMessageIdRef, frameLog>>
  /\ canSendMessage' = TRUE
  /\ event' = "handleStopGeneration"
  /\ UNCHANGED <<inputValue, conversationId, wsConnected, calls, wsStreams>>
  /\ Memoized(currentStreamingId # Null)
  /\ UNCHANGED <<trimmedChatHistory, args, returned, components>>

\* lines 397-449; nothing ever assigns currentWebSocketRef or
\* currentExecutionIdRef, so no transport is closed or aborted here
handleStopGeneration ==
  LET currentStreamingId == streamingMessageIdRef IN
  /\ currentWebSocketRef' = Null
  /\ IF currentStreamingId # Null
     THEN /\ messages' = ApplyStop(messages, currentStreamingId)
          /\ streamingMessageIdRef' = Null
          /\ frameLog' = <<>>
     ELSE UNCHANGED <<messages, streamingMessageIdRef, frameLog>>
  /\ canSendMessage' = TRUE
  /\ event' = "handleStopGeneration"
  /\ UNCHANGED <<inputValue, conversationId, wsConnected, calls, wsStreams>>
  /\ Memoized(currentStreamingId # Null)
  /\ UNCHANGED <<trimmedChatHistory, args, returned, components>>

\* ------------------------------------------------------ handleInputChange
handleInputChange(value) ==
  /\ inputValue' = value
  /\ event' = "handleInputChange"
  /\ UNCHANGED <<messages, canSendMessage, streamingMessageIdRef,
                 currentWebSocketRef, conversationId, wsConnected, calls,
                 wsStreams, frameLog>>
  /\ Memoized(FALSE)
  /\ UNCHANGED <<trimmedChatHistory, args, returned, components>>

\* ------------------------------------------------------- handleSendMessage
\* a send that looks at the input only
SendRefused_IgnoresGate(input, gate) == Trim(input) = <<>>

\* line 503: the submission is refused
SendRefused(input, gate) == Trim(input) = <<>> \/ ~gate

\* wsStartStreaming's result (useWebSocket): a send on a connected channel
\* may succeed or fail, a send on a closed one fails
StartStreamingResults(captured) ==
  IF captured /\ wsConnected THEN BOOLEAN ELSE {FALSE}

\* a send that puts the placeholder before the user message
SendBody_PlaceholderFirst(i, c, cs) ==
  LET streamMsgId == StreamMsgId(i)
      userMessage == NewMessage(UserMsgId(i), "user", Trim(c.input),
                                FALSE, FALSE, FALSE)
      streamingMessage == NewMessage(streamMsgId, "assistant", <<>>,
                                     TRUE, TRUE, FALSE)
  IN
  /\ canSendMessage' = FALSE
  /\ Memoized(TRUE)
  /\ streamingMessageIdRef' = streamMsgId
  /\ messages' = messages \o <<streamingMessage, userMessage>>
  /\ inputValue' = <<>>
  /\ frameLog' = <<>>
  /\ \E success \in StartStreamingResults(c.ws) :
       IF success
       THEN /\ calls' = [cs EXCEPT ![i] = Returned]
            /\ wsStreams' = wsStreams \cup {streamMsgId}
       ELSE /\ calls' = [cs EXCEPT ![i] = [Returned EXCEPT
                                             !.pc = "fetching",
                                             !.sid = streamMsgId]]
            /\ UNCHANGED wsStreams
  /\ UNCHANGED <<currentWebSocketRef, wsConnected>>

\* lines 544-663: close the gate, append the user message and the
\* placeholder, then try the push transport.  c is the invocation (with the
\* values its closure captured), i its index (its Date.now()), cs the
\* invocations with c among them.
SendBody(i, c, cs) ==
  LET streamMsgId == StreamMsgId(i)
      userMessage == NewMessage(UserMsgId(i), "user", Trim(c.input),
                                FALSE, FALSE, FALSE)
      streamingMessage == NewMessage(streamMsgId, "assistant", <<>>,
                                     TRUE, TRUE, FALSE)
  IN
  /\ canSendMessage' = FALSE
  /\ Memoized(TRUE)
  /\ streamingMessageIdRef' = streamMsgId
  /\ messages' = messages \o <<userMessage, streamingMessage>>
  /\ inputValue' = <<>>
  /\ frameLog' = <<>>
  /\ \E success \in StartStreamingResults(c.ws) :
       IF success
       THEN /\ calls' = [cs EXCEPT ![i] = Returned]
            /\ wsStreams' = wsStreams \cup {streamMsgId}
       ELSE /\ calls' = [cs EXCEPT ![i] = [Returned EXCEPT
                                             !.pc = "fetching",
                                             !.sid = streamMsgId]]
            /\ UNCHANGED wsStreams
  /\ UNCHANGED <<currentWebSocketRef, wsConnected>>

\* lines 500-543: the gate, then conversation creation when there is none
handleSendMessage ==
  LET c == [pc |-> "creating", input |-> inputValue, ws |-> wsConnected,
            sid |-> Null, fullResponse |-> <<>>]
      i == Len(calls) + 1
  IN
  /\ event' = "handleSendMessage"
  /\ IF SendRefused(inputValue, capturedCanSendMessage)
     THEN UNCHANGED <<messages, inputValue, canSendMessage,
                      capturedCanSendMessage,
                      streamingMessageIdRef, currentWebSocketRef,
                      conversationId, wsConnected, calls, wsStreams, frameLog>>
     ELSE /\ Len(calls) < MaxTurns
          /\ IF conversationId = Null
             THEN /\ calls' = Append(calls, c)
                  /\ UNCHANGED <<messages, inputValue, canSendMessage,
                                 capturedCanSendMessage,
                                 streamingMessageIdRef, currentWebSocketRef,
                                 conversationId, wsConnected, wsStreams, frameLog>>
             ELSE /\ SendBody(i, c, Append(calls, c))
                  /\ UNCHANGED conversationId
  /\ UNCHANGED <<trimmedChatHistory, args, returned, components>>

\* createConversationFn resolved: the new conversation becomes the current
\* one (lines 522-538) and the effect of lines 73-76 empties the list
CreateConversationResolved(i) ==
  LET newId == <<"conv", 1>> IN
  /\ i \in 1..Len(calls)
  /\ calls[i].pc = "creating"
  /\ calls' = [calls EXCEPT ![i].pc = "waiting"]
  /\ conversationId' = newId
  /\ messages' = <<>>
  /\ event' = "CreateConversationResolved"
  /\ UNCHANGED <<inputValue, canSendMessage, streamingMessageIdRef,
                 currentWebSocketRef, wsConnected, wsStreams, frameLog>>
  /\ Memoized(TRUE)
  /\ UNCHANGED <<trimmedChatHistory, args, returned, components>>

\* createConversationFn rejected: caught at line 539, the send goes on
CreateConversationRejected(i) ==
  /\ i \in 1..Len(calls)
  /\ calls[i].pc = "creating"
  /\ SendBody(i, calls[i], calls)
  /\ event' = "CreateConversationRejected"
  /\ UNCHANGED conversationId
  /\ UNCHANGED <<trimmedChatHistory, args, returned, components>>

\* the 100 ms timer of line 538 fired
WaitElapsed(i) ==
  /\ i \in 1..Len(calls)
  /\ calls[i].pc = "waiting"
  /\ SendBody(i, calls[i], calls)
  /\ event' = "WaitElapsed"
  /\ UNCHANGED conversationId
  /\ UNCHANGED <<trimmedChatHistory, args, returned, components>>

\* ------------------------------------------------- pull transport (SSE)
\* the complete lines a read hands to the loop of lines 724-736:
\* a data line whose JSON has a non-empty result, a data line whose JSON has
\* none, a data line that does not parse, and a line without the prefix
Lines == {<<"result", p>> : p \in Payloads} \cup
         {<<"noresult", <<>>>>, <<"malformed", <<>>>>, <<"other", <<>>>>}

RECURSIVE LineSeqs(_)
LineSeqs(n) ==
  IF n = 0 THEN {<<>>}
  ELSE LineSeqs(n - 1) \cup
       {Append(ls, l) : ls \in {x \in LineSeqs(n - 1) : Len(x) = n - 1},
                        l \in Lines}

\* the results of the data lines among lines, one after the other
RECURSIVE ResultPayloads(_)
ResultPayloads(lines) ==
  IF lines = <<>> THEN <<>>
  ELSE (IF Head(lines)[1] = "result" THEN Head(lines)[2] ELSE <<>>)
       \o ResultPayloads(Tail(lines))

\* handleStreamingResponse (lines 292-334) on the list msgs
handleStreamingResponse(msgs, ref, chunk) ==
  IF ref = Null THEN msgs ELSE ApplyRecord(msgs, ref, chunk)

\* a loop that a line that does not parse ends
RECURSIVE ProcessLines_StopsAtMalformed(_, _, _, _, _)
ProcessLines_StopsAtMalformed(lines, msgs, full, log, ref) ==
  IF lines = <<>> \/ Head(lines)[1] = "malformed"
  THEN [messages |-> msgs, fullResponse |-> full, frameLog |-> log]
  ELSE LET line == Head(lines) IN
       IF line[1] = "result"
       THEN ProcessLines_StopsAtMalformed(
              Tail(lines), handleStreamingResponse(msgs, ref, line[2]),
              line[2],
              IF ref # Null /\ FindIndex(msgs, ref) # 0
              THEN Append(log, <<"record", line[2]>>) ELSE log,
              ref)
       ELSE ProcessLines_StopsAtMalformed(Tail(lines), msgs, full, log, ref)

\* the for loop of lines 724-736 over the lines of one read
RECURSIVE ProcessLines(_, _, _, _, _)
ProcessLines(lines, msgs, full, log, ref) ==
  IF lines = <<>>
  THEN [messages |-> msgs, fullResponse |-> full, frameLog |-> log]
  ELSE LET line == Head(lines) IN
       IF line[1] = "result"
       THEN ProcessLines(Tail(lines),
                         handleStreamingResponse(msgs, ref, line[2]),
                         line[2],
                         IF ref # Null /\ FindIndex(msgs, ref) # 0
                         THEN Append(log, <<"record", line[2]>>) ELSE log,
                         ref)
       ELSE ProcessLines(Tail(lines), msgs, full, log, ref)

\* lines 682-707: the token lookup and fetch settled; a rejection or a
\* non-ok status throws
FetchSettled(i, ok) ==
  /\ i \in 1..Len(calls)
  /\ calls[i].pc = "fetching"
  /\ calls' = [calls EXCEPT ![i].pc = IF ok THEN "reading"
                                      ELSE "handlingError"]
  /\ event' = "FetchSettled"
  /\ UNCHANGED <<messages, inputValue, canSendMessage,
                 capturedCanSendMessage, streamingMessageIdRef,
                 currentWebSocketRef, conversationId, wsConnected, wsStreams, frameLog>>
  /\ UNCHANGED <<trimmedChatHistory, args, returned, components>>

\* lines 717-736: one read that is not done, with the lines it completes
ReadChunk(i, lines) ==
  LET r == ProcessLines(lines, messages, calls[i].fullResponse, frameLog,
                        streamingMessageIdRef)
  IN
  /\ i \in 1..Len(calls)
  /\ calls[i].pc = "reading"
  /\ CanDeliver(messages, streamingMessageIdRef, ResultPayloads(lines))
  /\ messages' = r.messages
  /\ frameLog' = r.frameLog
  /\ calls' = [calls EXCEPT ![i].fullResponse = r.fullResponse]
  /\ event' = "ReadChunk"
  /\ UNCHANGED <<inputValue, canSendMessage, streamingMessageIdRef,
                 currentWebSocketRef, conversationId, wsConnected, wsStreams>>
  /\ Memoized(streamingMessageIdRef # Null /\ ResultPayloads(lines) # <<>>)
  /\ UNCHANGED <<trimmedChatHistory, args, returned, components>>

\* reader.read() rejected: the finally releases the lock, the catch runs
ReadFailed(i) ==
  /\ i \in 1..Len(calls)
  /\ calls[i].pc = "reading"
  /\ calls' = [calls EXCEPT ![i].pc = "handlingError"]
  /\ event' = "ReadFailed"
  /\ UNCHANGED <<messages, inputValue, canSendMessage,
                 capturedCanSendMessage, streamingMessageIdRef,
                 currentWebSocketRef, conversationId, wsConnected, wsStreams, frameLog>>
  /\ UNCHANGED <<trimmedChatHistory, args, returned, components>>

\* lines 718, 742-747 and 789: the body is exhausted; with a result
\* handleStreamingComplete (lines 339-392) runs, without one the loop throws
ReadDone(i) ==
  LET currentStreamingId == streamingMessageIdRef IN
  /\ i \in 1..Len(calls)
  /\ calls[i].pc = "reading"
  /\ event' = "ReadDone"
  /\ IF calls[i].fullResponse # <<>>
     THEN /\ IF currentStreamingId # Null
             THEN /\ messages' = ApplyResult(messages, currentStreamingId,
                                             calls[i].fullResponse)
                  /\ streamingMessageIdRef' = Null
                  /\ frameLog' = <<>>
             ELSE UNCHANGED <<messages, streamingMessageIdRef, frameLog>>
          /\ canSendMessage' = TRUE
          /\ calls' = [calls EXCEPT ![i] = Returned]
     ELSE /\ calls' = [calls EXCEPT ![i].pc = "handlingError"]
          /\ UNCHANGED <<messages, streamingMessageIdRef, frameLog,
                         canSendMessage>>
  /\ UNCHANGED <<inputValue, currentWebSocketRef, conversationId, wsConnected,
                 wsStreams>>
  /\ Memoized(calls[i].fullResponse # <<>> /\ currentStreamingId # Null)
  /\ UNCHANGED <<trimmedChatHistory, args, returned, components>>

\* lines 748-789: handleAPIError resolved.  The updater of lines 773-780
\* reads the ref; it runs when setMessages is called (no update is pending
\* after the await), before line 782 clears the ref.
HandleAPIErrorResolved(i, shouldRedirect) ==
  LET errorMessage == NewMessage(ErrorMsgId(i), "assistant", ApiErrorNotice,
                                 FALSE, FALSE, TRUE)
      currentStreamingId == streamingMessageIdRef
  IN
  /\ i \in 1..Len(calls)
  /\ calls[i].pc = "handlingError"
  /\ calls' = [calls EXCEPT ![i] = Returned]
  /\ event' = "HandleAPIErrorResolved"
  /\ IF shouldRedirect
     THEN UNCHANGED <<messages, streamingMessageIdRef, canSendMessage,
                      frameLog>>
     ELSE /\ messages' = ApplyCatch(messages, currentStreamingId,
                                    errorMessage)
          /\ streamingMessageIdRef' = Null
          /\ frameLog' = <<>>
          /\ canSendMessage' = TRUE
  /\ UNCHANGED <<inputValue, currentWebSocketRef, conversationId, wsConnected,
                 wsStreams>>
  /\ Memoized(~shouldRedirect)
  /\ UNCHANGED <<trimmedChatHistory, args, returned, components>>

\* --------------------------------------------------------------- resetChat
\* lines 853-868
resetChat ==
  /\ messages' = <<>>
  /\ inputValue' = <<>>
  /\ canSendMessage' = TRUE
  /\ streamingMessageIdRef' = Null
  /\ currentWebSocketRef' = Null
  /\ frameLog' = <<>>
  /\ event' = "resetChat"
  /\ UNCHANGED <<conversationId, wsConnected, calls, wsStreams>>
  /\ Memoized(TRUE)
  /\ UNCHANGED <<trimmedChatHistory, args, returned, components>>

\* the conversationId prop changes: lines 73-76 empty the list, lines
\* 871-878 run resetChat when it became null
ConversationChanged(id) ==
  /\ id # Null \/ conversationId # Null
  /\ conversationId' = id
  /\ messages' = <<>>
  /\ IF id = Null
     THEN /\ inputValue' = <<>>
          /\ canSendMessage' = TRUE
          /\ streamingMessageIdRef' = Null
          /\ currentWebSocketRef' = Null
          /\ frameLog' = <<>>
     ELSE UNCHANGED <<inputValue, canSendMessage, streamingMessageIdRef,
                      currentWebSocketRef, frameLog>>
  /\ event' = "ConversationChanged"
  /\ UNCHANGED <<wsConnected, calls, wsStreams>>
  /\ Memoized(TRUE)
  /\ UNCHANGED <<trimmedChatHistory, args, returned, components>>

\* ------------------------------------------------------ push connection
WsConnected ==
  /\ ~wsConnected
  /\ wsConnected' = TRUE
  /\ event' = "WsConnected"
  /\ UNCHANGED <<messages, inputValue, canSendMessage, streamingMessageIdRef,
                 currentWebSocketRef, conversationId, calls, wsStreams, frameLog>>
  /\ Memoized(FALSE)
  /\ UNCHANGED <<trimmedChatHistory, args, returned, components>>

\* the connection drops: the streams it carried deliver nothing more
WsDisconnected ==
  /\ wsConnected
  /\ wsConnected' = FALSE
  /\ wsStreams' = {}
  /\ event' = "WsDisconnected"
  /\ UNCHANGED <<messages, inputValue, canSendMessage, streamingMessageIdRef,
                 currentWebSocketRef, conversationId, calls, frameLog>>
  /\ Memoized(FALSE)
  /\ UNCHANGED <<trimmedChatHistory, args, returned, components>>

\* ------------------------------------------------------------------- Init
Init ==
  /\ messages = <<>>
  /\ inputValue = <<>>
  /\ canSendMessage = TRUE
  /\ capturedCanSendMessage = TRUE
  /\ streamingMessageIdRef = Null
  /\ currentWebSocketRef = Null
  /\ conversationId \in ConversationIds \cup {Null}
  /\ wsConnected \in BOOLEAN
  /\ calls = <<>>
  /\ wsStreams = {}
  /\ frameLog = <<>>
  /\ trimmedChatHistory = Null
  /\ args = Null
  /\ returned = Null
  /\ ComponentsConstructed
  /\ event = "init"

Next ==
  \/ \E v \in Inputs : handleInputChange(v)
  \/ handleSendMessage
  \/ \E i \in 1..MaxTurns : CreateConversationResolved(i)
  \/ \E i \in 1..MaxTurns : CreateConversationRejected(i)
  \/ \E i \in 1..MaxTurns : WaitElapsed(i)
  \/ \E o \in wsStreams, t \in FrameTypes : \E d \in FrameData(t) :
        handleWebSocketMessage(o, t, d)
  \/ \E i \in 1..MaxTurns, ok \in BOOLEAN : FetchSettled(i, ok)
  \/ \E i \in 1..MaxTurns, lines \in LineSeqs(MaxLines) \ {<<>>} :
        ReadChunk(i, lines)
  \/ \E i \in 1..MaxTurns : ReadFailed(i)
  \/ \E i \in 1..MaxTurns : ReadDone(i)
  \/ \E i \in 1..MaxTurns, shouldRedirect \in BOOLEAN :
        HandleAPIErrorResolved(i, shouldRedirect)
  \/ handleStopGeneration
  \/ resetChat
  \/ \E id \in ConversationIds \cup {Null} : ConversationChanged(id)
  \/ WsConnected
  \/ WsDisconnected

Spec == Init /\ [][Next]_vars

\* ------------------------------------------------- the request's history
\* line 585
maxHistoryLength == 50

\* Array.prototype.slice(-n)
SliceLast(seq, n) ==
  IF Len(seq) <= n THEN seq ELSE SubSeq(seq, Len(seq) - n + 1, Len(seq))

\* a filter that lets the messages marked as errors through
Eligible_KeepsErrors(msg) == ~msg.isLoading /\ ~msg.isStreaming

\* line 578
Eligible(msg) == ~msg.isLoading /\ ~msg.isError /\ ~msg.isStreaming

\* lines 579-582
HistoryEntry(msg) ==
  [role |-> IF msg.type = "user" THEN "user" ELSE "assistant",
   content |-> msg.content]

RECURSIVE MapEntries(_)
MapEntries(msgs) ==
  IF msgs = <<>> THEN <<>>
  ELSE <<HistoryEntry(Head(msgs))>> \o MapEntries(Tail(msgs))

\* lines 576-582
ChatHistory(msgs, userMessage) ==
  MapEntries(SelectSeq(msgs \o <<userMessage>>, Eligible))

\* the variant that keeps the oldest entries
TrimmedChatHistory_KeepsOldest(msgs, userMessage) ==
  LET chatHistory == ChatHistory(msgs, userMessage) IN
  SubSeq(chatHistory, 1,
         IF Len(chatHistory) <= maxHistoryLength THEN Len(chatHistory)
         ELSE maxHistoryLength)

\* lines 576-586
TrimmedChatHistory(msgs, userMessage) ==
  SliceLast(ChatHistory(msgs, userMessage), maxHistoryLength)

\* the k-th message of a list under test: user and assistant alternate, the
\* content names the position, flaw is the flag that is set (if any)
HistoryMessage(k, flaw) ==
  NewMessage(<<"m", k>>, IF k % 2 = 1 THEN "user" ELSE "assistant",
             <<"m", ToString(k)>>, flaw = "isLoading", flaw = "isStreaming",
             flaw = "isError")

\* the list of n messages whose p-th carries flaw
RECURSIVE HistoryList(_, _, _)
HistoryList(n, p, flaw) ==
  IF n = 0 THEN <<>>
  ELSE Append(HistoryList(n - 1, p, flaw),
              HistoryMessage(n, IF n = p THEN flaw ELSE "none"))

Flaws == {"isLoading", "isStreaming", "isError"}

HistoryLists ==
  {HistoryList(n, p, flaw) : n \in 0..MaxHistory, p \in 0..MaxHistory,
                             flaw \in Flaws}

\* lines 548-586 of handleSendMessage on the list messages
BuildHistory ==
  LET userMessage == NewMessage(UserMsgId(1), "user", Trim(inputValue),
                                FALSE, FALSE, FALSE)
  IN
  /\ event = "init"
  /\ trimmedChatHistory' = TrimmedChatHistory(messages, userMessage)
  /\ event' = "BuildHistory"
  /\ UNCHANGED <<messages, inputValue, canSendMessage,
                 capturedCanSendMessage, streamingMessageIdRef,
                 currentWebSocketRef, conversationId, wsConnected, calls,
                 wsStreams, frameLog, args, returned, components>>

HistoryInit ==
  /\ messages \in HistoryLists
  /\ inputValue \in Inputs
  /\ canSendMessage = TRUE
  /\ capturedCanSendMessage = TRUE
  /\ streamingMessageIdRef = Null
  /\ currentWebSocketRef = Null
  /\ conversationId \in ConversationIds
  /\ wsConnected = FALSE
  /\ calls = <<>>
  /\ wsStreams = {}
  /\ frameLog = <<>>
  /\ trimmedChatHistory = Null
  /\ args = Null
  /\ returned = Null
  /\ ComponentsConstructed
  /\ event = "init"

HistoryNext == BuildHistory

HistorySpec == HistoryInit /\ [][HistoryNext]_vars

\* ------------------------------------------------- functions of the hook
\* the hook's state as constructed (lines 42-52), for the specifications
\* that apply one function to arguments drawn from a bounded set
HookConstructed ==
  /\ messages = <<>>
  /\ inputValue = <<>>
  /\ canSendMessage = TRUE
  /\ capturedCanSendMessage = TRUE
  /\ streamingMessageIdRef = Null
  /\ currentWebSocketRef = Null
  /\ conversationId \in ConversationIds
  /\ wsConnected = FALSE
  /\ calls = <<>>
  /\ wsStreams = {}
  /\ frameLog = <<>>
  /\ trimmedChatHistory = Null
  /\ returned = Null
  /\ ComponentsConstructed
  /\ event = "init"

HookUnchanged ==
  UNCHANGED <<messages, inputValue, canSendMessage, capturedCanSendMessage,
              streamingMessageIdRef, currentWebSocketRef, conversationId,
              wsConnected, calls, wsStreams, frameLog, trimmedChatHistory,
              args, components>>

\* ---------------------------------------- error classification (224-246)
MaxMessageParts == 2
\* substrings an error message may contain: the six the code looks for, one
\* that differs from a keyword in case only, and one unrelated
MessageParts == {"401", "Unauthorized", "timeout", "time over (ko)",
                 "rate limit", "limit (ko)", "Timeout", "other"}

RECURSIVE SeqsUpTo(_, _)
SeqsUpTo(S, n) ==
  IF n = 0 THEN {<<>>}
  ELSE LET shorter == SeqsUpTo(S, n - 1) IN
       shorter \cup {Append(s, x) : s \in shorter, x \in S}

ErrorFrameMessages == SeqsUpTo(MessageParts, MaxMessageParts) \cup {Missing}

\* lines 224-246: the text an error frame with data.message = args shows
ClassifyError ==
  /\ event = "init"
  /\ returned' = ErrorContent(args)
  /\ event' = "ClassifyError"
  /\ HookUnchanged

ClassifyInit == HookConstructed /\ args \in ErrorFrameMessages

ClassifyNext == ClassifyError

ClassifySpec == ClassifyInit /\ [][ClassifyNext]_vars

\* --------------------------------------- outbound parameters (627-703)
\* what a turn has in hand when it chooses its transport: userMessage.content,
\* trimmedChatHistory, activePromptCards, selectedModel, conversationIdToUse,
\* user?.id and the session's id token (undefined when there is none)
TurnParameters ==
  [userInput : {<<"q">>, <<"r">>},
   trimmedChatHistory : {<<>>, <<[role |-> "user", content |-> <<"m">>]>>},
   activePromptCards : {<<>>, <<"card 1">>},
   selectedModel : {"model 1", "model 2"},
   conversationIdToUse : {<<"conv", 1>>, <<"conv", 2>>},
   userId : {Undefined, <<"user 1">>},
   token : {Undefined, <<"token 1">>}]

\* lines 639-646: the arguments of wsStartStreaming, by what each carries
WsStartStreamingArguments(p) ==
  [userInput |-> p.userInput,
   chat_history |-> p.trimmedChatHistory,
   prompt_cards |-> p.activePromptCards,
   modelId |-> p.selectedModel,
   conversationId |-> p.conversationIdToUse,
   userSub |-> p.userId]

\* lines 672-678
RequestData(p) ==
  [userInput |-> p.userInput,
   chat_history |-> p.trimmedChatHistory,
   prompt_cards |-> p.activePromptCards,
   modelId |-> p.selectedModel,
   useKnowledgeBase |-> TRUE]

\* lines 683-703: the Authorization header is sent when there is a token
FetchRequest(p) ==
  [body |-> RequestData(p),
   headers |-> IF p.token # Undefined
               THEN [Authorization |-> <<"Bearer">> \o p.token]
               ELSE <<>>]

\* lines 627-646: the turn is sent over the push channel
PushSend ==
  /\ event = "init"
  /\ returned' = [transport |-> "push",
                  parameters |-> WsStartStreamingArguments(args)]
  /\ event' = "PushSend"
  /\ HookUnchanged

\* lines 665-703: the turn is sent as a pull request
PullRequest ==
  /\ event = "init"
  /\ returned' = [transport |-> "pull",
                  parameters |-> FetchRequest(args).body,
                  headers |-> FetchRequest(args).headers]
  /\ event' = "PullRequest"
  /\ HookUnchanged

RequestInit == HookConstructed /\ args \in TurnParameters

RequestNext == PushSend \/ PullRequest

RequestSpec == RequestInit /\ [][RequestNext]_vars

\* ------------------------------------------ activePromptCards (597-610)
MaxCards == 3
\* the cards a caller may pass, without their ids: a field a card does not
\* have is undefined in the code and absent from the record here
CardKinds ==
  {[isActive |-> TRUE, enabled |-> TRUE, prompt_text |-> <<"p">>,
    stepOrder |-> 1],
   [prompt_text |-> <<"p">>],
   [prompt_text |-> <<"p">>, stepOrder |-> 0, title |-> <<"t">>],
   [prompt_text |-> <<"p">>, stepOrder |-> 2],
   [isActive |-> FALSE, prompt_text |-> <<"p">>, stepOrder |-> 0],
   [enabled |-> FALSE, prompt_text |-> <<"p">>, stepOrder |-> 1],
   [prompt_text |-> <<" ">>, content |-> <<"c">>, stepOrder |-> 1],
   [prompt_text |-> <<>>, stepOrder |-> 1],
   [content |-> <<"c">>, stepOrder |-> 2]}

\* the card of kind `kind` at position k of the list: its id names k
CardAt(kind, k) ==
  [name \in DOMAIN kind \cup {"promptId"} |->
     IF name = "promptId" THEN <<"card", k>> ELSE kind[name]]

RECURSIVE CardLists(_)
CardLists(n) ==
  IF n = 0 THEN {<<>>}
  ELSE LET shorter == CardLists(n - 1) IN
       shorter \cup {Append(l, CardAt(kind, Len(l) + 1)) :
                       l \in {s \in shorter : Len(s) = n - 1},
                       kind \in CardKinds}

\* the values of the promptCards parameter: arrays of cards, and values
\* that are no array
PromptCardsValues ==
  {[type |-> "array", value |-> l] : l \in CardLists(MaxCards)}
  \cup {[type |-> t, value |-> <<>>] : t \in {"null", "object", "string"}}

\* card[name] !== false
NotFalse(card, name) == name \notin DOMAIN card \/ card[name]

\* card[name] || other, for a text field (the empty text is falsy)
TextOr(card, name, other) ==
  IF name \in DOMAIN card /\ card[name] # <<>> THEN card[name] ELSE other

\* lines 600-607: the card in the backend's format
MapCard(card) ==
  [promptId |-> card.promptId,
   title |-> TextOr(card, "title", <<"Untitled">>),
   prompt_text |-> TextOr(card, "prompt_text", TextOr(card, "content", <<>>)),
   tags |-> <<>>,
   isActive |-> NotFalse(card, "isActive"),
   stepOrder |-> IF "stepOrder" \in DOMAIN card THEN card.stepOrder ELSE 0]

RECURSIVE MapCards(_)
MapCards(cards) ==
  IF cards = <<>> THEN <<>>
  ELSE <<MapCard(Head(cards))>> \o MapCards(Tail(cards))

\* a sort that puts a card before the cards of its stepOrder
RECURSIVE SortByStepOrder_Unstable(_)
SortByStepOrder_Unstable(cards) ==
  IF cards = <<>> THEN <<>>
  ELSE LET card == cards[Len(cards)]
           sorted == SortByStepOrder_Unstable(SubSeq(cards, 1, Len(cards) - 1))
           n == Cardinality({k \in 1..Len(sorted) :
                               sorted[k].stepOrder < card.stepOrder})
       IN SubSeq(sorted, 1, n) \o <<card>>
            \o SubSeq(sorted, n + 1, Len(sorted))

\* line 610: Array.prototype.sort is stable; the comparator is the
\* difference of the stepOrders
RECURSIVE SortByStepOrder(_)
SortByStepOrder(cards) ==
  IF cards = <<>> THEN <<>>
  ELSE LET card == cards[Len(cards)]
           sorted == SortByStepOrder(SubSeq(cards, 1, Len(cards) - 1))
           n == Cardinality({k \in 1..Len(sorted) :
                               sorted[k].stepOrder <= card.stepOrder})
       IN SubSeq(sorted, 1, n) \o <<card>>
            \o SubSeq(sorted, n + 1, Len(sorted))

\* lines 598-610
ActivePromptCards(promptCards) ==
  LET safePromptCards == IF promptCards.type = "array" THEN promptCards.value
                         ELSE <<>>
      enabled == SelectSeq(safePromptCards,
                           LAMBDA card : NotFalse(card, "isActive")
                                         /\ NotFalse(card, "enabled"))
      withText == SelectSeq(MapCards(enabled),
                            LAMBDA card : Trim(card.prompt_text) # <<>>)
  IN SortByStepOrder(withText)

BuildPromptCards ==
  /\ event = "init"
  /\ returned' = ActivePromptCards(args)
  /\ event' = "BuildPromptCards"
  /\ HookUnchanged

CardsInit == HookConstructed /\ args \in PromptCardsValues

CardsNext == BuildPromptCards

CardsSpec == CardsInit /\ [][CardsNext]_vars

\* ------------------------------ parseCitations (debugUtils.js 150-192)
MaxPieces == 5
\* a text is a sequence of characters; the texts are built from these pieces
Pieces == {<<"x">>, <<"[">>, <<"]">>, <<"0">>, <<"1">>, <<"[", "1", "]">>}

RECURSIVE Texts(_)
Texts(n) ==
  IF n = 0 THEN {<<>>}
  ELSE LET shorter == Texts(n - 1) IN
       shorter \cup {t \o p : t \in shorter, p \in Pieces}

\* the sources argument: none, or one article with id 1
SourceLists == {<<>>, <<[id |-> 1, title |-> <<"t">>]>>}

\* JS values of the text argument: strings, and values that are no string
TextValues ==
  {[type |-> "string", value |-> t] : t \in Texts(MaxPieces)}
  \cup {[type |-> t, value |-> <<>>] : t \in {"null", "undefined", "number"}}

Digits == <<"0", "1", "2", "3", "4", "5", "6", "7", "8", "9">>

IsDigit(c) == \E d \in 1..10 : Digits[d] = c

\* parseInt(digits, 10) on a non-empty run of digits
RECURSIVE ParseInt(_)
ParseInt(digits) ==
  IF digits = <<>> THEN 0
  ELSE 10 * ParseInt(SubSeq(digits, 1, Len(digits) - 1))
       + (CHOOSE d \in 0..9 : Digits[d + 1] = digits[Len(digits)])

\* /\[(\d+)\]/ at position i of text: the position of the closing bracket,
\* 0 when there is no match at i
MatchEnd(text, i) ==
  IF i \in 1..Len(text) /\ text[i] = "["
  THEN LET stop == IF \E j \in (i + 1)..Len(text) : ~IsDigit(text[j])
                   THEN CHOOSE j \in (i + 1)..Len(text) :
                          /\ ~IsDigit(text[j])
                          /\ \A k \in (i + 1)..(j - 1) : IsDigit(text[k])
                   ELSE 0
       IN IF stop > i + 1 /\ text[stop] = "]" THEN stop ELSE 0
  ELSE 0

\* citationPattern.exec(text) from position from on: where the next match
\* starts, 0 for null
Exec(text, from) ==
  IF \E i \in from..Len(text) : MatchEnd(text, i) # 0
  THEN CHOOSE i \in from..Len(text) :
         /\ MatchEnd(text, i) # 0
         /\ \A k \in from..(i - 1) : MatchEnd(text, k) = 0
  ELSE 0

TextPart(chars) == [type |-> "string", value |-> chars]

\* lines 170-177: the CitationLink element of the match at position i
CitationLink(text, sources, i) ==
  LET citationNum == ParseInt(SubSeq(text, i + 1, MatchEnd(text, i) - 1)) IN
  [type |-> "CitationLink",
   key |-> <<"citation", citationNum, i - 1>>,
   citationNumber |-> citationNum,
   article |-> IF \E k \in 1..Len(sources) : sources[k].id = citationNum
               THEN sources[CHOOSE k \in 1..Len(sources) :
                              /\ sources[k].id = citationNum
                              /\ \A j \in 1..(k - 1) :
                                   sources[j].id # citationNum]
               ELSE Undefined]

\* lines 160-182: the while loop; from is lastIndex + 1
RECURSIVE ParseLoop(_, _, _, _)
ParseLoop(text, sources, from, parts) ==
  LET i == Exec(text, from) IN
  IF i = 0 THEN [parts |-> parts, from |-> from]
  ELSE ParseLoop(text, sources, MatchEnd(text, i) + 1,
                 (IF i > from
                  THEN Append(parts, TextPart(SubSeq(text, from, i - 1)))
                  ELSE parts)
                 \o <<CitationLink(text, sources, i)>>)

\* a parse that forgets the text after the last marker
parseCitations_DropsTail(text, sources) ==
  IF text.type # "string" \/ text.value = <<>> THEN <<text>>
  ELSE LET r == ParseLoop(text.value, sources, 1, <<>>) IN
       IF Len(r.parts) > 0 THEN r.parts ELSE <<text>>

\* lines 150-192
parseCitations(text, sources) ==
  IF text.type # "string" \/ text.value = <<>> THEN <<text>>
  ELSE LET r == ParseLoop(text.value, sources, 1, <<>>)
           parts == IF r.from <= Len(text.value)
                    THEN Append(r.parts,
                                TextPart(SubSeq(text.value, r.from,
                                                Len(text.value))))
                    ELSE r.parts
       IN IF Len(parts) > 0 THEN parts ELSE <<text>>

ParseCitations ==
  /\ event = "init"
  /\ returned' = parseCitations(args.text, args.sources)
  /\ event' = "parseCitations"
  /\ HookUnchanged

CitationInit ==
  /\ HookConstructed
  /\ args \in [text : TextValues, sources : SourceLists]

CitationNext == ParseCitations

CitationSpec == CitationInit /\ [][CitationNext]_vars

\* ---------------------------- renderSourcesList (debugUtils.js 199-236)
MaxSources == 2
NoTitle == <<"(no title)">>                     \* debugUtils.js line 210
\* the fields a source may have; a source has its id and any of the others
SourceFields == {"title", "date", "url", "content"}

SourceKinds ==
  {[name \in (fields \cup {"id"}) |->
      IF name = "id" THEN <<"id">> ELSE <<name, "text">>] :
     fields \in SUBSET SourceFields}

RECURSIVE SourceListsUpTo(_)
SourceListsUpTo(n) ==
  IF n = 0 THEN {<<>>}
  ELSE LET shorter == SourceListsUpTo(n - 1) IN
       shorter \cup {Append(l, s) : l \in {x \in shorter : Len(x) = n - 1},
                                    s \in SourceKinds}

\* the sources argument: a list, or undefined (for which the default
\* parameter gives the empty list)
SourcesValues ==
  {[type |-> "array", value |-> l] : l \in SourceListsUpTo(MaxSources)}
  \cup {[type |-> "undefined", value |-> <<>>]}

\* lines 209-215: the article made of a source
ArticleForCarousel(source) ==
  [title |-> TextOr(source, "title", NoTitle),
   date |-> TextOr(source, "date", <<>>),
   url |-> TextOr(source, "url", <<>>),
   originalSource |-> source]

RECURSIVE ArticlesForCarousel(_)
ArticlesForCarousel(sources) ==
  IF sources = <<>> THEN <<>>
  ELSE <<ArticleForCarousel(Head(sources))>>
       \o ArticlesForCarousel(Tail(sources))

\* lines 199-236: null, or the carousel with its articles
renderSourcesList(sources) ==
  IF sources.value = <<>> THEN [type |-> "null", articles |-> <<>>]
  ELSE [type |-> "ArticleCarousel",
        articles |-> ArticlesForCarousel(sources.value)]

RenderSourcesList ==
  /\ event = "init"
  /\ returned' = renderSourcesList(args)
  /\ event' = "renderSourcesList"
  /\ HookUnchanged

SourcesInit == HookConstructed /\ args \in SourcesValues

SourcesNext == RenderSourcesList

SourcesSpec == SourcesInit /\ [][SourcesNext]_vars

\* ------------------------------------- the SSE read loop (710-747)
MaxBodyPieces == 4
MaxCuts == 2
\* a response body is a sequence of characters, built from these pieces: a
\* data line with a result, a newline, and a character of another line
DataLine(p) == <<"data:", " ", "{", p, "}">>

BodyPieces == {DataLine("a"), DataLine("b"), <<"\n">>, <<"x">>}

RECURSIVE Bodies(_)
Bodies(n) ==
  IF n = 0 THEN {<<>>}
  ELSE LET shorter == Bodies(n - 1) IN
       shorter \cup {b \o p : b \in shorter, p \in BodyPieces}

\* the body cut into reads after the positions cuts
RECURSIVE SplitAt(_, _)
SplitAt(body, cuts) ==
  IF body = <<>> THEN <<>>
  ELSE IF cuts = {} THEN <<body>>
  ELSE LET c == CHOOSE x \in cuts : \A y \in cuts : x >= y IN
       Append(SplitAt(SubSeq(body, 1, c), cuts \ {c}),
              SubSeq(body, c + 1, Len(body)))

\* a body with the values that reader.read() resolves to before done
Responses(n) ==
  UNION {{[body |-> b, reads |-> SplitAt(b, cuts)] :
            cuts \in {c \in SUBSET (1..(Len(b) - 1)) :
                        Cardinality(c) <= MaxCuts}} :
           b \in Bodies(n)}

\* String.prototype.split("\n")
RECURSIVE SplitLines(_)
SplitLines(s) ==
  IF \E i \in 1..Len(s) : s[i] = "\n"
  THEN LET i == CHOOSE j \in 1..Len(s) :
                  s[j] = "\n" /\ \A k \in 1..(j - 1) : s[k] # "\n"
       IN <<SubSeq(s, 1, i - 1)>> \o SplitLines(SubSeq(s, i + 1, Len(s)))
  ELSE <<s>>

\* lines 725-730: the results a line delivers: the result of its JSON when
\* it starts with "data: " and the rest parses to an object with a result
LineResults(line) ==
  IF /\ Len(line) = 5
     /\ SubSeq(line, 1, 3) = <<"data:", " ", "{">>
     /\ line[4] \in {"a", "b"}
     /\ line[5] = "}"
  THEN <<line[4]>>
  ELSE <<>>

RECURSIVE LinesResults(_)
LinesResults(lines) ==
  IF lines = <<>> THEN <<>>
  ELSE LineResults(Head(lines)) \o LinesResults(Tail(lines))

\* lines 710-713
GetReader ==
  /\ event = "init"
  /\ returned' = [rest |-> args.reads, buffer |-> <<>>, delivered |-> <<>>,
                  fullResponse |-> <<>>]
  /\ event' = "getReader"
  /\ HookUnchanged

\* lines 717-736: a read that is not done
Read ==
  /\ event \in {"getReader", "read"}
  /\ returned.rest # <<>>
  /\ LET buffer == returned.buffer \o Head(returned.rest)
         lines == SplitLines(buffer)
         results == LinesResults(SubSeq(lines, 1, Len(lines) - 1))
     IN returned' = [rest |-> Tail(returned.rest),
                     buffer |-> lines[Len(lines)],
                     delivered |-> returned.delivered \o results,
                     fullResponse |->
                       IF results = <<>> THEN returned.fullResponse
                       ELSE <<results[Len(results)]>>]
  /\ event' = "read"
  /\ HookUnchanged

\* line 718: the read that is done leaves the loop
ReadEnd ==
  /\ event \in {"getReader", "read"}
  /\ returned.rest = <<>>
  /\ event' = "readEnd"
  /\ UNCHANGED returned
  /\ HookUnchanged

ReaderInit == HookConstructed /\ args \in Responses(MaxBodyPieces)

ReaderNext == GetReader \/ Read \/ ReadEnd

ReaderSpec == ReaderInit /\ [][ReaderNext]_vars

\* ------------------------------------------- RealTimeTyping (component)
\* src/frontend/src/components/news/RealTimeTyping.js. One step is one task
\* of the event loop: a render with a new content prop, or a timeout, each
\* with the effects and re-renders that React flushes before the next task.
\* The isStreaming prop only reaches console.log and the cursor (lines 28-33,
\* 80-84, 104); a change of it re-runs the effects without changing state.
MaxTyped == 3

\* the values of the content prop
Contents(n) == SeqsUpTo({"a", "b"}, n)

\* String.prototype.startsWith, line 36
StartsWith(text, prefix) ==
  /\ Len(text) >= Len(prefix)
  /\ SubSeq(text, 1, Len(prefix)) = prefix

\* the state a render reads: lines 15-17
RenderState ==
  [displayedContent |-> displayedContent, currentIndex |-> currentIndex,
   isTyping |-> isTyping]

\* lines 22-48: the state updates the content effect queues for a render
\* with state s
ContentEffect(s, newContent, previousContent) ==
  IF newContent = previousContent THEN s
  ELSE IF StartsWith(newContent, previousContent)
       THEN [s EXCEPT !.currentIndex = Len(previousContent),
                      !.isTyping = TRUE]
       ELSE [displayedContent |-> <<>>, currentIndex |-> 0,
             isTyping |-> TRUE]

\* lines 52-86: what the typing effect does for a render with state s, after
\* the cleanup of its previous run cleared the pending timeout (87-91):
\* the timeout it schedules and whether it calls setIsTyping(false)
TypingEffect(s, targetContent) ==
  IF ~s.isTyping THEN [timer |-> <<>>, stop |-> FALSE]
  ELSE IF s.currentIndex < Len(targetContent)
       THEN [timer |-> <<targetContent[s.currentIndex + 1]>>,
             stop |-> FALSE]
       ELSE [timer |-> <<>>, stop |-> TRUE]

\* the render that follows a change of currentIndex or isTyping (the
\* dependencies of line 92) re-runs the typing effect, until no update is
\* queued
RECURSIVE Rerender(_, _)
Rerender(s, targetContent) ==
  LET effect == TypingEffect(s, targetContent) IN
  IF effect.stop
  THEN Rerender([s EXCEPT !.isTyping = FALSE], targetContent)
  ELSE [state |-> s, timer |-> effect.timer]

\* the updates are applied and the component is at rest
Commit(settled) ==
  /\ displayedContent' = settled.state.displayedContent
  /\ currentIndex' = settled.state.currentIndex
  /\ isTyping' = settled.state.isTyping
  /\ typingTimerRef' = settled.timer

\* the hook and the function arguments are left alone
ChatUnchanged ==
  UNCHANGED <<messages, inputValue, canSendMessage, capturedCanSendMessage,
              streamingMessageIdRef, currentWebSocketRef, conversationId,
              wsConnected, calls, wsStreams, frameLog, trimmedChatHistory,
              args, returned>>

\* the parent renders the component with another content: both effects run
\* with the state of that render (the typing effect after the content
\* effect, in the order of the source), their updates are applied in the
\* order they were queued, and a changed dependency re-runs the typing effect
ContentChanged(newContent) ==
  LET s == RenderState
      updated == ContentEffect(s, newContent, previousContentRef)
      effect == TypingEffect(s, newContent)
      queued == IF effect.stop THEN [updated EXCEPT !.isTyping = FALSE]
                ELSE updated
  IN
  /\ newContent # contentProp
  /\ contentProp' = newContent
  /\ previousContentRef' = newContent
  /\ Commit(IF queued.currentIndex # s.currentIndex
               \/ queued.isTyping # s.isTyping
            THEN Rerender(queued, newContent)
            ELSE [state |-> queued, timer |-> effect.timer])
  /\ event' = "ContentChanged"
  /\ ChatUnchanged
  /\ UNCHANGED <<thinkingVars, conversationsVars>>

\* lines 71-74: the pending timeout fires; the render that follows re-runs
\* the typing effect because currentIndex changed
TypingTimeout ==
  /\ typingTimerRef # <<>>
  /\ Commit(Rerender([displayedContent |->
                        displayedContent \o typingTimerRef,
                      currentIndex |-> currentIndex + 1,
                      isTyping |-> isTyping], contentProp))
  /\ event' = "TypingTimeout"
  /\ UNCHANGED <<contentProp, previousContentRef>>
  /\ ChatUnchanged
  /\ UNCHANGED <<thinkingVars, conversationsVars>>

\* every hook and component as constructed
ComponentsInit == HookConstructed /\ args = Null

TypingNext ==
  \/ \E newContent \in Contents(MaxTyped) : ContentChanged(newContent)
  \/ TypingTimeout

TypingSpec == ComponentsInit /\ [][TypingNext]_vars

\* ------------------------------------------- useThinkingProcess (hook)
\* lines 920-1159 of useChat.js. One step is a call of one of the returned
\* functions or a timeout. A step is [id, type, description, status]; the
\* field flow records the run of startThinking the step was created for.
\* A timeout is [kind, gen, n]: the autoComplete timeout of step n (lines
\* 976-982) or the n-th timeout of startStandardFlow (lines 1104-1118),
\* created during run gen.
MaxFlows == 2

MaxSteps == 3

\* lines 1051-1085: the stepConfigs of addAnalyzingStep, addSearchingStep,
\* addProcessingStep and addGeneratingStep, in the order of lines 1104-1118
FlowSteps ==
  <<[type |-> "analyzing", autoComplete |-> TRUE],
    [type |-> "searching", autoComplete |-> FALSE],
    [type |-> "processing", autoComplete |-> FALSE],
    [type |-> "generating", autoComplete |-> FALSE]>>

\* the stepConfigs a caller passes: addReviewingStep (1087-1097) and
\* addProcessingStep; no caller passes an id
StepConfigs ==
  {[type |-> "reviewing", autoComplete |-> TRUE],
   [type |-> "processing", autoComplete |-> FALSE]}

\* stepTimers.current.forEach(timer => clearTimeout(timer)): what stays
\* pending
ClearTimers == timeouts \ {stepTimers[k] : k \in DOMAIN stepTimers}

\* lines 957-985: addStep, called for the run origin while the timeouts
\* pending are pending
AddStep(stepConfig, origin, pending) ==
  LET stepId == stepIdCounter + 1
      timer == [kind |-> "autoComplete", gen |-> flow, n |-> stepId]
      newStep == [id |-> stepId, type |-> stepConfig.type,
                  description |-> "initial", status |-> "active",
                  flow |-> origin]
  IN
  /\ stepIdCounter < MaxSteps
  /\ stepIdCounter' = stepId
  /\ steps' = Append(steps, newStep)
  /\ currentStep' = stepConfig.type
  /\ IF stepConfig.autoComplete
     THEN /\ timeouts' = pending \cup {timer}
          /\ stepTimers' = [k \in DOMAIN stepTimers \cup {stepId} |->
                              IF k = stepId THEN timer ELSE stepTimers[k]]
     ELSE /\ timeouts' = pending
          /\ UNCHANGED stepTimers
  /\ UNCHANGED <<isThinking, flow>>

\* lines 997-1017 and 1020-1040: completeStep and failStep set the status
\* and the description (message || ..., where "" stands for the falsy
\* messages) of the step named stepId, and clear its timer
EndStep(stepId, status, message, pending) ==
  /\ steps' = [k \in 1..Len(steps) |->
                 IF steps[k].id = stepId
                 THEN [steps[k] EXCEPT
                         !.status = status,
                         !.description = IF message = "" THEN @
                                         ELSE message]
                 ELSE steps[k]]
  /\ IF stepId \in DOMAIN stepTimers
     THEN /\ timeouts' = pending \ {stepTimers[stepId]}
          /\ stepTimers' = [k \in DOMAIN stepTimers \ {stepId} |->
                              stepTimers[k]]
     ELSE /\ timeouts' = pending
          /\ UNCHANGED stepTimers
  /\ UNCHANGED <<currentStep, isThinking, stepIdCounter, flow>>

\* the rest of the model is left alone
ThinkingOnly == ChatUnchanged /\ UNCHANGED <<typingVars, conversationsVars>>

\* lines 928-937, where scheduled are the timeouts the caller sets next
StartThinking(scheduled) ==
  /\ flow < MaxFlows
  /\ steps' = <<>>
  /\ currentStep' = NoStep
  /\ isThinking' = TRUE
  /\ stepIdCounter' = 0
  /\ timeouts' = ClearTimers \cup scheduled
  /\ stepTimers' = <<>>
  /\ flow' = flow + 1
  /\ ThinkingOnly

startThinking == StartThinking({}) /\ event' = "startThinking"

\* lines 1100-1120: startThinking, then the four timeouts
startStandardFlow ==
  /\ StartThinking({[kind |-> "flow", gen |-> flow + 1, n |-> k] :
                      k \in 1..Len(FlowSteps)})
  /\ event' = "startStandardFlow"

\* a finish that leaves the timers of the steps running
finishThinking_KeepsTimers ==
  /\ isThinking' = FALSE
  /\ currentStep' = NoStep
  /\ steps' = [k \in 1..Len(steps) |->
                 IF steps[k].status = "active"
                 THEN [steps[k] EXCEPT !.status = "completed"]
                 ELSE steps[k]]
  /\ UNCHANGED <<timeouts, stepTimers>>
  /\ event' = "finishThinking"
  /\ UNCHANGED <<stepIdCounter, flow>>
  /\ ThinkingOnly

\* lines 940-954
finishThinking ==
  /\ isThinking' = FALSE
  /\ currentStep' = NoStep
  /\ steps' = [k \in 1..Len(steps) |->
                 IF steps[k].status = "active"
                 THEN [steps[k] EXCEPT !.status = "completed"]
                 ELSE steps[k]]
  /\ timeouts' = ClearTimers
  /\ stepTimers' = <<>>
  /\ event' = "finishThinking"
  /\ UNCHANGED <<stepIdCounter, flow>>
  /\ ThinkingOnly

\* a caller adds a step
addStep(stepConfig) ==
  /\ AddStep(stepConfig, flow, timeouts)
  /\ event' = "addStep"
  /\ ThinkingOnly

\* a caller completes a step, without a message
completeStep(stepId) ==
  /\ EndStep(stepId, "completed", "", timeouts)
  /\ event' = "completeStep"
  /\ ThinkingOnly

\* a caller fails a step
failStep(stepId) ==
  /\ EndStep(stepId, "error", "error message", timeouts)
  /\ event' = "failStep"
  /\ ThinkingOnly

\* line 1154
clearAllSteps ==
  /\ steps' = <<>>
  /\ event' = "clearAllSteps"
  /\ UNCHANGED <<currentStep, isThinking, stepIdCounter, stepTimers,
                 timeouts, flow>>
  /\ ThinkingOnly

\* lines 1104-1118: a timeout of startStandardFlow fires, after the ones with
\* a shorter delay and after the same one of an earlier run
FlowTimeout(timer) ==
  /\ timer \in timeouts
  /\ timer.kind = "flow"
  /\ \A other \in timeouts :
       other.kind = "flow"
       => /\ other.gen = timer.gen => other.n >= timer.n
          /\ other.n = timer.n => other.gen >= timer.gen
  /\ AddStep(FlowSteps[timer.n], timer.gen, timeouts \ {timer})
  /\ event' = "FlowTimeout"
  /\ ThinkingOnly

\* lines 977-979: the autoComplete timeout of a step fires
AutoCompleteTimeout(timer) ==
  /\ timer \in timeouts
  /\ timer.kind = "autoComplete"
  /\ EndStep(timer.n, "completed", "autoComplete message",
             timeouts \ {timer})
  /\ event' = "AutoCompleteTimeout"
  /\ ThinkingOnly

ThinkingNext ==
  \/ startThinking
  \/ startStandardFlow
  \/ finishThinking
  \/ \E stepConfig \in StepConfigs : addStep(stepConfig)
  \/ \E stepId \in 1..MaxSteps : completeStep(stepId)
  \/ \E stepId \in 1..MaxSteps : failStep(stepId)
  \/ clearAllSteps
  \/ \E timer \in timeouts : FlowTimeout(timer)
  \/ \E timer \in timeouts : AutoCompleteTimeout(timer)

ThinkingSpec == ComponentsInit /\ [][ThinkingNext]_vars

\* --------------------------------------------- useConversations (hook)
\* src/unnamed/part_000. A conversation is [id, lastActivityAt]; the id and
\* the time of the n-th conversation created (lines 83-86) are both n.
\* loadConversations and createConversation contain no await, so each runs
\* in one step; deleteConversation waits for conversationAPI, which is not
\* part of the sources. The parameter conversationId is named deletedId here.
MaxConversations == 3

\* what conversationAPI.deleteConversation does (line 146): it resolves or
\* rejects, and when it resolves the stored item may or may not be gone
ApiDeleteOutcomes == {"resolved", "resolved and removed", "rejected"}

\* lines 48-50: the stored conversations, the most recent first
RECURSIVE SortByActivity(_)
SortByActivity(stored) ==
  IF stored = {} THEN <<>>
  ELSE LET latest == CHOOSE c \in stored :
                       \A d \in stored : d.lastActivityAt <= c.lastActivityAt
       IN <<latest>> \o SortByActivity(stored \ {latest})

\* lines 16-73
LoadConversations(reset) ==
  /\ IF loadingConversations
     THEN UNCHANGED <<conversations, hasMore>>
     ELSE /\ conversations' = IF reset THEN SortByActivity(sessionStorage)
                              ELSE conversations
                                   \o SortByActivity(sessionStorage)
          /\ hasMore' = FALSE
  /\ UNCHANGED <<loadingConversations, sessionStorage, idCounter,
                 deleteCalls>>
  /\ ChatUnchanged
  /\ UNCHANGED <<typingVars, thinkingVars>>

\* lines 181-183: the effect that runs once after the first render
InitialLoad ==
  /\ event = "init"
  /\ LoadConversations(TRUE)
  /\ event' = "InitialLoad"

\* lines 176-178
refresh ==
  /\ event # "init"
  /\ LoadConversations(TRUE)
  /\ event' = "refresh"

\* lines 169-173
loadMore ==
  /\ event # "init"
  /\ IF hasMore /\ ~loadingConversations
     THEN LoadConversations(FALSE)
     ELSE /\ UNCHANGED conversationsVars
          /\ ChatUnchanged
          /\ UNCHANGED <<typingVars, thinkingVars>>
  /\ event' = "loadMore"

\* lines 76-118
createConversation ==
  LET newConversation == [id |-> idCounter + 1,
                          lastActivityAt |-> idCounter + 1]
  IN
  /\ event # "init"
  /\ idCounter < MaxConversations
  /\ idCounter' = idCounter + 1
  /\ sessionStorage' = sessionStorage \cup {newConversation}
  /\ conversations' = <<newConversation>> \o conversations
  /\ event' = "createConversation"
  /\ UNCHANGED <<loadingConversations, hasMore, deleteCalls>>
  /\ ChatUnchanged
  /\ UNCHANGED <<typingVars, thinkingVars>>

\* lines 143-146: deleteConversation is called for a conversation that was
\* created and waits for the backend
deleteConversation(deletedId) ==
  /\ event # "init"
  /\ deletedId <= idCounter
  /\ \A call \in deleteCalls : call.id # deletedId
  /\ deleteCalls' = deleteCalls \cup {[id |-> deletedId,
                                       pc |-> "awaiting"]}
  /\ event' = "deleteConversation"
  /\ UNCHANGED <<conversations, loadingConversations, hasMore,
                 sessionStorage, idCounter>>
  /\ ChatUnchanged
  /\ UNCHANGED <<typingVars, thinkingVars>>

\* lines 146-158: the backend call settles, the conversation is filtered out
\* of the list and deleteConversation returns true
DeleteSettled(deletedId, outcome) ==
  /\ [id |-> deletedId, pc |-> "awaiting"] \in deleteCalls
  /\ deleteCalls' = (deleteCalls \ {[id |-> deletedId,
                                     pc |-> "awaiting"]})
                    \cup {[id |-> deletedId, pc |-> "returned"]}
  /\ conversations' = SelectSeq(conversations,
                                LAMBDA conv : conv.id # deletedId)
  /\ sessionStorage' = IF outcome = "resolved and removed"
                       THEN {c \in sessionStorage : c.id # deletedId}
                       ELSE sessionStorage
  /\ event' = "DeleteSettled"
  /\ UNCHANGED <<loadingConversations, hasMore, idCounter>>
  /\ ChatUnchanged
  /\ UNCHANGED <<typingVars, thinkingVars>>

\* lines 162-166
removeConversation(deletedId) ==
  /\ event # "init"
  /\ conversations' = SelectSeq(conversations,
                                LAMBDA conv : conv.id # deletedId)
  /\ event' = "removeConversation"
  /\ UNCHANGED <<loadingConversations, hasMore, sessionStorage, idCounter,
                 deleteCalls>>
  /\ ChatUnchanged
  /\ UNCHANGED <<typingVars, thinkingVars>>

ConversationsNext ==
  \/ InitialLoad
  \/ refresh
  \/ loadMore
  \/ createConversation
  \/ \E deletedId \in 1..MaxConversations :
       deleteConversation(deletedId)
  \/ \E deletedId \in 1..MaxConversations,
        outcome \in ApiDeleteOutcomes :
       DeleteSettled(deletedId, outcome)
  \/ \E deletedId \in 1..MaxConversations :
       removeConversation(deletedId)

ConversationsSpec == ComponentsInit /\ [][ConversationsNext]_vars

\* ----------------------------------------------------------------- claims
Streaming == {k \in 1..Len(messages) : messages[k].isStreaming}

\* the streaming message id names a message of the list
Found == FindIndex(messages, streamingMessageIdRef) # 0

\* the turn whose placeholder is named id has reached a terminal state
Terminal(id) ==
  \E k \in 1..Len(messages) : messages[k].id = id /\ ~messages[k].isStreaming

EndsWith(text, suffix) ==
  /\ Len(text) >= Len(suffix)
  /\ SubSeq(text, Len(text) - Len(suffix) + 1, Len(text)) = suffix

\* the turn whose placeholder is named id was ended by handleStopGeneration
Cancelled(id) ==
  \E k \in 1..Len(messages) :
    /\ messages[k].id = id
    /\ ~messages[k].isStreaming
    /\ EndsWith(messages[k].content, CancelNotice)

RECURSIVE Concatenation(_)
Concatenation(log) ==
  IF log = <<>> THEN <<>> ELSE Head(log)[2] \o Concatenation(Tail(log))

OnlyChunks(log) == \A k \in 1..Len(log) : log[k][1] = "stream_chunk"

\* a stream_complete frame is applied to the streaming message
CompleteApplied(d) ==
  /\ streamingMessageIdRef # Null
  /\ Found
  /\ \E o \in wsStreams : handleWebSocketMessage(o, "stream_complete", d)

\* an error frame is applied to the streaming message
ErrorApplied ==
  /\ streamingMessageIdRef # Null
  /\ Found
  /\ \E o \in wsStreams, d \in ErrorMessages :
       handleWebSocketMessage(o, "error", d)

\* the pull body of invocation i is exhausted with a result
PullCompleted(i) ==
  /\ i \in 1..Len(calls)
  /\ calls[i].pc = "reading"
  /\ calls[i].fullResponse # <<>>
  /\ ReadDone(i)

\* C1: when the active turn completes (a stream_complete frame is applied to
\* the streaming message, or the pull body is exhausted with a result), the
\* gate canSendMessage is open again, with no cancel and no reset.
C1_GateReopensOnCompletion ==
  [][((\E d \in FullContents : CompleteApplied(d))
      \/ (\E i \in 1..MaxTurns : PullCompleted(i)))
     => canSendMessage']_vars

\* C2: every non-success end of a turn (an error frame, a failure of the pull
\* transport, an authentication failure that asks for a redirect) leaves an
\* error notice in the list and opens the gate again.
C2_FailureLeavesNoticeAndReopens ==
  [][(ErrorApplied
      \/ (\E i \in 1..MaxTurns, r \in BOOLEAN :
            HandleAPIErrorResolved(i, r)))
     => (/\ canSendMessage'
         /\ \E k \in 1..Len(messages') :
              messages'[k].isError /\ messages'[k].content # <<>>)]_vars

\* C3: handleSendMessage while the gate is closed changes nothing: not the
\* message list, not the streaming message id, not the gate, and no
\* invocation starts and no stream opens (no request on either transport).
C3_RefusedSendIsNoOp ==
  [][(event' = "handleSendMessage" /\ ~canSendMessage)
     => UNCHANGED <<messages, streamingMessageIdRef, canSendMessage, calls,
                    wsStreams>>]_vars

C3_Witness ==
  /\ event = "handleSendMessage"
  /\ ~canSendMessage
  /\ Trim(inputValue) # <<>>
  /\ streamingMessageIdRef # Null
  /\ Found
  /\ ContentOf(messages, streamingMessageIdRef) # <<>>

\* C4: at most one message is streaming, and it is the one the streaming
\* message id names.
C4_AtMostOneStreaming ==
  /\ Cardinality(Streaming) <= 1
  /\ \A k \in Streaming : messages[k].id = streamingMessageIdRef

\* C5: while only stream_chunk frames have been delivered to the streaming
\* message, its content is the concatenation of their payloads in arrival
\* order, starting from the empty placeholder.
C5_ChunksConcatenate ==
  (streamingMessageIdRef # Null /\ Found /\ OnlyChunks(frameLog))
  => ContentOf(messages, streamingMessageIdRef) = Concatenation(frameLog)

C5_Witness ==
  /\ event = "handleWebSocketMessage"
  /\ streamingMessageIdRef # Null
  /\ Found
  /\ Len(frameLog) = 2
  /\ OnlyChunks(frameLog)
  /\ frameLog[1][2] # frameLog[2][2]
  /\ ContentOf(messages, streamingMessageIdRef) = <<"a", "b">>

\* C6: after a pull record is applied to the streaming message, the content
\* of that message is the record's result (replacement).
C6_RecordReplacesContent ==
  [][\A i \in 1..MaxTurns, lines \in LineSeqs(MaxLines) :
       (/\ streamingMessageIdRef # Null
        /\ Found
        /\ lines # <<>>
        /\ lines[Len(lines)][1] = "result"
        /\ ReadChunk(i, lines))
       => ContentOf(messages', streamingMessageIdRef)
            = lines[Len(lines)][2]]_vars

\* C7: a stream_complete frame applied to the streaming message makes
\* fullContent the content, whatever was accumulated, and ends the streaming.
C7_CompleteOverwrites ==
  [][\A d \in FullContents :
       CompleteApplied(d)
       => LET k == FindIndex(messages, streamingMessageIdRef) IN
          /\ Len(messages') = Len(messages)
          /\ messages'[k].id = streamingMessageIdRef
          /\ messages'[k].content = d
          /\ ~messages'[k].isStreaming]_vars

C7_Witness ==
  /\ event = "handleWebSocketMessage"
  /\ streamingMessageIdRef = Null
  /\ \E k \in 1..Len(messages) :
       /\ messages[k].type = "assistant"
       /\ messages[k].content \in FullContents
       /\ ~messages[k].isStreaming
       /\ ~messages[k].isLoading

\* C8: a frame or pull record of a turn that has reached a terminal state
\* leaves the message list unchanged.
C8_LateFrameDiscarded ==
  [][/\ \A o \in wsStreams, t \in FrameTypes : \A d \in FrameData(t) :
          (Terminal(o) /\ handleWebSocketMessage(o, t, d))
          => messages' = messages
     /\ \A i \in 1..Len(calls), lines \in LineSeqs(MaxLines) :
          (Terminal(calls[i].sid) /\ ReadChunk(i, lines))
          => messages' = messages]_vars

\* C9: handleStopGeneration on a streaming message with content P leaves
\* P followed by the cancellation notice, not streaming, not loading, not an
\* error, clears the streaming message id and opens the gate, in one step.
C9_StopKeepsPartialContent ==
  [][(event' = "handleStopGeneration" /\ streamingMessageIdRef # Null
      /\ Found)
     => LET k == FindIndex(messages, streamingMessageIdRef) IN
        /\ Len(messages') = Len(messages)
        /\ messages'[k].id = streamingMessageIdRef
        /\ messages'[k].content = messages[k].content \o CancelNotice
        /\ ~messages'[k].isStreaming
        /\ ~messages'[k].isLoading
        /\ ~messages'[k].isError
        /\ streamingMessageIdRef' = Null
        /\ canSendMessage']_vars

C9_Witness ==
  /\ event = "handleStopGeneration"
  /\ streamingMessageIdRef = Null
  /\ canSendMessage
  /\ \E k \in 1..Len(messages) :
       /\ messages[k].content = <<"a", "b">> \o CancelNotice
       /\ ~messages[k].isStreaming
       /\ ~messages[k].isLoading
       /\ ~messages[k].isError

\* C10: once a turn is cancelled, none of its frames, records or its pull
\* completion changes a message, ends the next turn or opens the gate.
C10_CancelledStreamIgnored ==
  [][/\ \A o \in wsStreams, t \in FrameTypes : \A d \in FrameData(t) :
          (Cancelled(o) /\ handleWebSocketMessage(o, t, d))
          => UNCHANGED <<messages, streamingMessageIdRef, canSendMessage>>
     /\ \A i \in 1..Len(calls) :
          (Cancelled(calls[i].sid)
           /\ (ReadDone(i) \/ \E lines \in LineSeqs(MaxLines) :
                                 ReadChunk(i, lines)))
          => UNCHANGED <<messages, streamingMessageIdRef,
                         canSendMessage>>]_vars

\* the value of wsConnected that invocation i captured at submission
CapturedWs(i) == IF i = Len(calls) + 1 THEN wsConnected ELSE calls[i].ws

\* invocation i runs lines 544-663: it closes the gate, appends its messages
\* and chooses the transport
BodyStep(i) ==
  \/ /\ i = Len(calls) + 1
     /\ conversationId # Null
     /\ ~SendRefused(inputValue, capturedCanSendMessage)
     /\ handleSendMessage
  \/ /\ i \in 1..Len(calls)
     /\ CreateConversationRejected(i) \/ WaitElapsed(i)

\* the content frames applied to the streaming message came over both
\* transports
MixedTransports(log) ==
  /\ \E k \in 1..Len(log) : log[k][1] = "stream_chunk"
  /\ \E k \in 1..Len(log) : log[k][1] = "record"

\* C11: a push stream is opened only in the step that creates the turn's
\* placeholder (so at most once); the turn goes to the pull transport exactly
\* when the channel was not connected at submission or the push send failed;
\* the choice of transport adds no error message; and the content frames
\* applied to a streaming message never come from both transports.
C11_TransportSelection ==
  [][/\ \A id \in wsStreams' \ wsStreams :
          FindIndex(messages, id) = 0 /\ FindIndex(messages', id) # 0
     /\ \A i \in 1..MaxTurns :
          BodyStep(i)
          => /\ (calls'[i].pc = "fetching") # (StreamMsgId(i) \in wsStreams')
             /\ calls'[i].pc \in {"fetching", "done"}
             /\ ~CapturedWs(i) => calls'[i].pc = "fetching"
             /\ \A k \in 1..Len(messages') :
                  messages'[k].isError
                  => \E j \in 1..Len(messages) : messages[j] = messages'[k]
     /\ ~MixedTransports(frameLog')]_vars

\* the pull body of invocation i is exhausted with a result while the
\* streaming message is the placeholder of invocation i
PullCompletesOwnTurn(i) ==
  /\ PullCompleted(i)
  /\ streamingMessageIdRef = calls[i].sid
  /\ Found

\* C12: a turn submitted while the push channel is not connected goes to the
\* pull transport, and when its body is exhausted with the answer its message
\* is what a stream_complete frame with that answer would leave: the same
\* content, not streaming, not loading, not an error, with the gate open.
C12_FallbackEquivalent ==
  [][\A i \in 1..MaxTurns :
       /\ (BodyStep(i) /\ ~CapturedWs(i)) => calls'[i].pc = "fetching"
       /\ PullCompletesOwnTurn(i)
          => LET k == FindIndex(messages, streamingMessageIdRef)
                 push == ApplyComplete(messages, streamingMessageIdRef,
                                       calls[i].fullResponse)
             IN /\ Len(messages') = Len(messages)
                /\ messages'[k].id = push[k].id
                /\ messages'[k].content = push[k].content
                /\ messages'[k].content = calls[i].fullResponse
                /\ messages'[k].isStreaming = push[k].isStreaming
                /\ messages'[k].isLoading = push[k].isLoading
                /\ messages'[k].isError = push[k].isError
                /\ ~messages'[k].isStreaming
                /\ ~messages'[k].isLoading
                /\ ~messages'[k].isError
                /\ canSendMessage']_vars

C12_Witness ==
  /\ event = "ReadDone"
  /\ ~wsConnected
  /\ wsStreams = {}
  /\ canSendMessage
  /\ streamingMessageIdRef = Null
  /\ Len(messages) = 2
  /\ messages[2].type = "assistant"
  /\ messages[2].content = <<"b">>
  /\ ~messages[2].isStreaming
  /\ ~messages[2].isLoading
  /\ ~messages[2].isError

\* the positions of the eligible messages among all
EligibleAt(all) == {k \in 1..Len(all) : Eligible(all[k])}

\* the position in all of the j-th entry when the last n eligible are kept
KeptAt(all, n, j) ==
  CHOOSE k \in EligibleAt(all) :
    Cardinality({l \in EligibleAt(all) : l > k}) = n - j

\* C13: the history sent with a turn has at most 50 entries: all eligible
\* messages (the prior ones and the current user message) when there are at
\* most 50, otherwise the last 50, in their original order.
C13_HistoryIsLastFifty ==
  (event = "BuildHistory")
  => LET all == messages \o <<NewMessage(UserMsgId(1), "user",
                                         Trim(inputValue), FALSE, FALSE,
                                         FALSE)>>
         n == IF Cardinality(EligibleAt(all)) > 50 THEN 50
              ELSE Cardinality(EligibleAt(all))
     IN /\ Len(trimmedChatHistory) = n
        /\ n <= 50
        /\ \A j \in 1..n :
             LET msg == all[KeptAt(all, n, j)] IN
             /\ trimmedChatHistory[j].content = msg.content
             /\ trimmedChatHistory[j].role =
                  (IF msg.type = "user" THEN "user" ELSE "assistant")

C13_Witness ==
  /\ event = "BuildHistory"
  /\ Len(messages) = 52
  /\ \E k \in 1..Len(messages) : messages[k].isError
  /\ Len(trimmedChatHistory) = 50
  /\ trimmedChatHistory[1].content = <<"m", "3">>
  /\ trimmedChatHistory[50].content = <<"q">>
  /\ trimmedChatHistory[50].role = "user"

\* C14: a message that is streaming before and after a step has content at
\* least as long after it as before.
C14_ContentNeverShrinks ==
  [][\A k \in 1..Len(messages), j \in 1..Len(messages') :
       (/\ messages[k].isStreaming
        /\ messages'[j].id = messages[k].id
        /\ messages'[j].isStreaming)
       => Len(messages'[j].content) >= Len(messages[k].content)]_vars

C14_Witness ==
  /\ event = "ReadChunk"
  /\ streamingMessageIdRef # Null
  /\ Found
  /\ messages[FindIndex(messages, streamingMessageIdRef)].isStreaming
  /\ Len(frameLog) = 2
  /\ Len(ContentOf(messages, streamingMessageIdRef)) = 2

\* C15: an assistant message that is not streaming is, after any step that
\* keeps it in the list, neither streaming nor loading.
C15_TerminalIsAbsorbing ==
  [][\A k \in 1..Len(messages), j \in 1..Len(messages') :
       (/\ messages[k].type = "assistant"
        /\ ~messages[k].isStreaming
        /\ messages'[j].id = messages[k].id)
       => ~messages'[j].isStreaming /\ ~messages'[j].isLoading]_vars

C15_Witness ==
  /\ event = "handleWebSocketMessage"
  /\ Len(messages) = 4
  /\ messages[2].type = "assistant"
  /\ ~messages[2].isStreaming
  /\ ~messages[2].isLoading
  /\ messages[4].isStreaming
  /\ messages[4].content = <<"a">>
  /\ streamingMessageIdRef = messages[4].id

\* an assistant message that a completion has ended
Complete(msg) ==
  /\ msg.type = "assistant"
  /\ ~msg.isStreaming
  /\ ~msg.isLoading
  /\ ~msg.isError
  /\ ~EndsWith(msg.content, CancelNotice)

\* C16: a complete assistant message stays in the list as it is (content,
\* sources and flags) through every step but resetChat and a change of
\* conversation.
C16_CompleteIsImmutable ==
  [][\A k \in 1..Len(messages) :
       (/\ Complete(messages[k])
        /\ event' \notin {"resetChat", "ConversationChanged",
                          "CreateConversationResolved"})
       => \E j \in 1..Len(messages') : messages'[j] = messages[k]]_vars

C16_Witness ==
  /\ event = "HandleAPIErrorResolved"
  /\ Len(messages) = 4
  /\ Complete(messages[2])
  /\ messages[2].content \in FullContents
  /\ messages[2].sources = Sources
  /\ messages[4].isError

\* the message named id is in msgs, marked as an error, with content that is
\* partial followed by a notice
KeepsPartial(msgs, id, partial) ==
  \E j \in 1..Len(msgs) :
    /\ msgs[j].id = id
    /\ msgs[j].isError
    /\ ~msgs[j].isStreaming
    /\ StartsWith(msgs[j].content, partial)
    /\ Len(msgs[j].content) > Len(partial)

\* C17: when a turn whose message has partial content P ends in error (an
\* error frame, or a failure of the pull transport), the message stays in the
\* list and its content is P followed by a failure notice.
C17_ErrorKeepsPartial ==
  [][LET id == streamingMessageIdRef
         partial == ContentOf(messages, streamingMessageIdRef)
     IN (/\ id # Null
         /\ Found
         /\ partial # <<>>
         /\ \/ ErrorApplied
            \/ \E i \in 1..MaxTurns : HandleAPIErrorResolved(i, FALSE))
        => KeepsPartial(messages', id, partial)]_vars

MalformedLine == <<"malformed", <<>>>>

\* C19: a frame that does not parse changes nothing that frames are applied
\* to (the list, the streaming message id, the gate, the invocations, the
\* open streams), on the push listener and in the pull loop, where the read
\* goes on; and the pull loop applies the lines around one that does not
\* parse as it applies them alone.
C19_MalformedFrameSkipped ==
  [][/\ (event' = "handleWebSocketMessage")
        => \A o \in wsStreams :
             handleWebSocketMessage(o, "malformed", <<>>)
             => UNCHANGED <<messages, streamingMessageIdRef, canSendMessage,
                            calls, wsStreams, frameLog>>
     /\ (event' = "ReadChunk")
        => /\ \A i \in 1..MaxTurns :
                ReadChunk(i, <<MalformedLine>>)
                => UNCHANGED <<messages, streamingMessageIdRef,
                               canSendMessage, calls, wsStreams, frameLog>>
           /\ \A p \in Payloads :
                LET alone == ProcessLines(<<<<"result", p>>>>, messages,
                                          <<>>, frameLog,
                                          streamingMessageIdRef)
                IN /\ ProcessLines(<<MalformedLine, <<"result", p>>>>,
                                   messages, <<>>, frameLog,
                                   streamingMessageIdRef) = alone
                   /\ ProcessLines(<<<<"result", p>>, MalformedLine>>,
                                   messages, <<>>, frameLog,
                                   streamingMessageIdRef) = alone]_vars

\* a read of the streaming turn's own body has just applied no record (as
\* with a line that does not parse), and the turn goes on
C19_Witness ==
  /\ event = "ReadChunk"
  /\ streamingMessageIdRef # Null
  /\ Found
  /\ frameLog = <<>>
  /\ ContentOf(messages, streamingMessageIdRef) = <<>>
  /\ messages[FindIndex(messages, streamingMessageIdRef)].isStreaming
  /\ \E i \in 1..Len(calls) :
       calls[i].pc = "reading" /\ calls[i].sid = streamingMessageIdRef

\* C20: when the pull body is exhausted (no record of the body is a terminal
\* record: the loop of lines 724-736 reads eventData.result only), the turn
\* ends as an error, also when result records were received.
C20_ExhaustedBodyIsError ==
  [][\A i \in 1..MaxTurns :
       (i \in 1..Len(calls) /\ calls[i].pc = "reading" /\ ReadDone(i))
       => /\ calls'[i].pc = "handlingError"
          /\ UNCHANGED <<messages, canSendMessage>>]_vars

\* the classes of C21, read off the message
HasPart(message, parts) ==
  message # Missing /\ \E i \in 1..Len(message) : message[i] \in parts

IsUnauthorized(message) == HasPart(message, {"401", "Unauthorized"})

IsTimeout(message) == HasPart(message, {"timeout", "time over (ko)"})

IsRateLimit(message) == HasPart(message, {"rate limit", "limit (ko)"})

\* C21: the text chosen for an error frame depends on the backend message
\* only: an unauthorized message (it contains "401" or "Unauthorized") gets
\* the log-in-again text; otherwise a timeout message gets the simplify-or-
\* retry text; otherwise a rate-limit message gets the wait text; every other
\* message, a missing one included, gets the generic text.  A message of
\* several classes gets the text of the earliest class in this order.
C21_ErrorTextByClass ==
  event = "ClassifyError" =>
    /\ IsUnauthorized(args) => returned = AuthError
    /\ (~IsUnauthorized(args) /\ IsTimeout(args)) => returned = TimeoutError
    /\ (~IsUnauthorized(args) /\ ~IsTimeout(args) /\ IsRateLimit(args))
         => returned = RateLimitError
    /\ (~IsUnauthorized(args) /\ ~IsTimeout(args) /\ ~IsRateLimit(args))
         => returned = GenericError
    /\ args = Missing => returned = GenericError

\* a message that is both a rate-limit and a timeout message was classified
C21_Witness ==
  /\ event = "ClassifyError"
  /\ args = <<"rate limit", "timeout">>
  /\ returned = TimeoutError

\* invocation i takes a step of its pull read loop (lines 717-747): a read
\* that delivers lines, or the read that finds the body exhausted
PullReadStep(i) ==
  /\ event' \in {"ReadChunk", "ReadDone"}
  /\ ReadDone(i) \/ \E lines \in LineSeqs(MaxLines) : ReadChunk(i, lines)

\* C22: handleStopGeneration closes the transport of the active turn: once a
\* pull turn is cancelled its read loop reads no more and its completion
\* handler does not run.
C22_StopClosesTransport ==
  [][\A i \in 1..Len(calls) :
       Cancelled(calls[i].sid) => ~PullReadStep(i)]_vars

\* the parameter of an outbound request, undefined when it is not sent
Parameter(request, name) ==
  IF name \in DOMAIN request THEN request[name] ELSE Undefined

\* C23: the outbound parameters of a turn do not depend on the transport:
\* text, trimmed history, active prompt cards and model identifier are the
\* same in the push send and in the pull request, and the conversation
\* identifier and the user identifier are sent on both.
C23_TransportParity ==
  event \in {"PushSend", "PullRequest"} =>
    /\ \A name \in {"userInput", "chat_history", "prompt_cards", "modelId"} :
         /\ Parameter(WsStartStreamingArguments(args), name)
              = Parameter(RequestData(args), name)
         /\ Parameter(returned.parameters, name)
              = Parameter(RequestData(args), name)
    /\ Parameter(returned.parameters, "conversationId")
         = args.conversationIdToUse
    /\ Parameter(returned.parameters, "userSub") = args.userId

\* the text of an input card: prompt_text, or content when there is none
CardText(card) ==
  IF "prompt_text" \in DOMAIN card /\ card.prompt_text # <<>>
  THEN card.prompt_text
  ELSE IF "content" \in DOMAIN card THEN card.content ELSE <<>>

\* a blank text holds white space only
Blank(text) == \A k \in 1..Len(text) : text[k] \in Whitespace

\* the stepOrder of an input card, 0 when it has none
StepOrderOf(card) == IF "stepOrder" \in DOMAIN card THEN card.stepOrder ELSE 0

\* the positions of the input cards that are to be sent
SentPositions(cards) ==
  {k \in 1..Len(cards) :
     /\ ~("isActive" \in DOMAIN cards[k] /\ cards[k].isActive = FALSE)
     /\ ~("enabled" \in DOMAIN cards[k] /\ cards[k].enabled = FALSE)
     /\ ~Blank(CardText(cards[k]))}

\* C24: the prompt cards sent with a turn are exactly the input cards that are
\* enabled (neither isActive nor enabled is false) and have a non-blank text,
\* each once, in non-decreasing stepOrder (0 when missing), cards of equal
\* stepOrder in their input order; an input that is no array gives no cards.
C24_PromptCardsFilteredAndSorted ==
  event = "BuildPromptCards" =>
    IF args.type # "array" THEN returned = <<>>
    ELSE LET cards == args.value
             sent == SentPositions(cards)
         IN /\ Len(returned) = Cardinality(sent)
            /\ \A k \in sent : \E j \in 1..Len(returned) :
                 /\ returned[j].promptId = cards[k].promptId
                 /\ returned[j].prompt_text = CardText(cards[k])
                 /\ returned[j].stepOrder = StepOrderOf(cards[k])
            /\ \A j \in 1..Len(returned) : \A k \in 1..Len(returned) :
                 j < k =>
                   \/ returned[j].stepOrder < returned[k].stepOrder
                   \/ /\ returned[j].stepOrder = returned[k].stepOrder
                      /\ returned[j].promptId[2] < returned[k].promptId[2]

\* three cards were sent in an order that differs from the input's, two of
\* them of equal stepOrder
C24_Witness ==
  /\ event = "BuildPromptCards"
  /\ args.type = "array"
  /\ Len(args.value) = 3
  /\ Len(returned) = 3
  /\ returned[1].promptId = <<"card", 2>>
  /\ returned[2].promptId = <<"card", 3>>
  /\ returned[3].promptId = <<"card", 1>>
  /\ returned[1].stepOrder = returned[2].stepOrder

\* an input that is no array was given
C24_NonArrayWitness ==
  event = "BuildPromptCards" /\ args.type = "null" /\ returned = <<>>

\* the input that invocation i submitted
SubmittedInput(i) == IF i = Len(calls) + 1 THEN inputValue ELSE calls[i].input

\* text is input without the white space at its ends
IsTrimmed(text, input) ==
  /\ text # <<>> => (text[1] \notin Whitespace
                     /\ text[Len(text)] \notin Whitespace)
  /\ \E a \in 0..Len(input) :
       /\ a + Len(text) <= Len(input)
       /\ SubSeq(input, a + 1, a + Len(text)) = text
       /\ \A k \in (1..a) \cup ((a + Len(text) + 1)..Len(input)) :
            input[k] \in Whitespace

\* C25: an accepted submission appends exactly two messages to the end of the
\* list, the user message holding the trimmed input and then an empty
\* assistant placeholder that is streaming; every earlier message stays as it
\* was, the gate is closed, the input is cleared and the streaming message id
\* is the placeholder's id.
C25_SubmissionAppendsTurn ==
  [][\A i \in 1..MaxTurns :
       BodyStep(i) =>
         LET n == Len(messages) IN
         /\ Len(messages') = n + 2
         /\ SubSeq(messages', 1, n) = messages
         /\ messages'[n + 1].type = "user"
         /\ IsTrimmed(messages'[n + 1].content, SubmittedInput(i))
         /\ ~messages'[n + 1].isStreaming
         /\ messages'[n + 2].type = "assistant"
         /\ messages'[n + 2].content = <<>>
         /\ messages'[n + 2].isStreaming
         /\ messages'[n + 2].isLoading
         /\ ~messages'[n + 2].isError
         /\ streamingMessageIdRef' = messages'[n + 2].id
         /\ ~canSendMessage'
         /\ inputValue' = <<>>]_vars

\* a second turn was submitted after a first one that has content
C25_Witness ==
  /\ event = "handleSendMessage"
  /\ Len(messages) = 4
  /\ messages[2].content # <<>>
  /\ messages[3].type = "user"
  /\ messages[3].content = <<"q">>
  /\ messages[4].isStreaming
  /\ messages[4].content = <<>>
  /\ streamingMessageIdRef = messages[4].id
  /\ ~canSendMessage
  /\ inputValue = <<>>

\* C26: stream_start and progress frames are informational: applying one
\* leaves the message list (the streaming message's content and flags
\* included), the streaming message id and the gate as they were.
C26_InformationalFramesChangeNothing ==
  [][\A o \in wsStreams : \A t \in {"stream_start", "progress"} :
       (event' = "handleWebSocketMessage"
        /\ handleWebSocketMessage(o, t, <<>>))
       => UNCHANGED <<messages, streamingMessageIdRef, canSendMessage>>]_vars

\* a frame was handled while the active turn's message was still empty and
\* loading: no content frame has been applied to it
C26_Witness ==
  /\ event = "handleWebSocketMessage"
  /\ streamingMessageIdRef \in wsStreams
  /\ ~canSendMessage
  /\ \E k \in 1..Len(messages) :
       /\ messages[k].id = streamingMessageIdRef
       /\ messages[k].content = <<>>
       /\ messages[k].isLoading
       /\ messages[k].isStreaming

\* text has a marker [n] from position i to position j
IsMarker(text, i, j) ==
  /\ i \in 1..Len(text)
  /\ j \in (i + 2)..Len(text)
  /\ text[i] = "["
  /\ text[j] = "]"
  /\ \A k \in (i + 1)..(j - 1) :
       text[k] \in {"0", "1", "2", "3", "4", "5", "6", "7", "8", "9"}

MarkerStarts(text) ==
  {i \in 1..Len(text) : \E j \in 1..Len(text) : IsMarker(text, i, j)}

\* the decimal form of a number
RECURSIVE ToDigits(_)
ToDigits(n) ==
  IF n < 10 THEN <<Digits[n + 1]>>
  ELSE ToDigits(n \div 10) \o <<Digits[(n % 10) + 1]>>

\* the marker a citation element is shown as: [citationNumber]
MarkerOf(element) == <<"[">> \o ToDigits(element.citationNumber) \o <<"]">>

\* the marker of the input a citation element was made from: the one at the
\* position its key names
MarkerAt(text, element) ==
  LET i == element.key[3] + 1 IN
  IF \E j \in 1..Len(text) : IsMarker(text, i, j)
  THEN SubSeq(text, i, CHOOSE j \in 1..Len(text) : IsMarker(text, i, j))
  ELSE <<>>

\* the parts read in order, each citation element replaced by its marker
RECURSIVE Rendered(_)
Rendered(parts) ==
  IF parts = <<>> THEN <<>>
  ELSE (IF Head(parts).type = "CitationLink" THEN MarkerOf(Head(parts))
        ELSE Head(parts).value) \o Rendered(Tail(parts))

\* the parts read in order, each citation element replaced by the marker of
\* the input at its position
RECURSIVE Reassembled(_, _)
Reassembled(parts, text) ==
  IF parts = <<>> THEN <<>>
  ELSE (IF Head(parts).type = "CitationLink" THEN MarkerAt(text, Head(parts))
        ELSE Head(parts).value) \o Reassembled(Tail(parts), text)

\* a run of digits without its leading zeros
RECURSIVE StripZeros(_)
StripZeros(digits) ==
  IF Len(digits) > 1 /\ Head(digits) = "0" THEN StripZeros(Tail(digits))
  ELSE digits

\* one citation element per marker, texts between them as single non-empty
\* parts
SplitAtMarkers(parts, text) ==
  /\ Cardinality({k \in 1..Len(parts) : parts[k].type = "CitationLink"})
       = Cardinality(MarkerStarts(text))
  /\ \A k \in 1..Len(parts) :
       parts[k].type = "string" =>
         /\ parts[k].value # <<>>
         /\ k < Len(parts) => parts[k + 1].type = "CitationLink"
  /\ \A j \in 1..Len(parts) : \A k \in 1..Len(parts) :
       (j < k /\ parts[j].type = "CitationLink"
        /\ parts[k].type = "CitationLink") => parts[j].key[3] < parts[k].key[3]

HasMarkers(value) ==
  value.type = "string" /\ MarkerStarts(value.value) # {}

\* no marker of the text starts its number with a 0 that is not the number
LeadingZero(text) ==
  \E i \in MarkerStarts(text) : text[i + 1] = "0" /\ text[i + 2] # "]"

\* C27 (as stated): parseCitations splits a text at its [n] markers so that
\* the parts, read in order with each citation element replaced by its
\* marker, concatenate to exactly the input text: one element per marker in
\* order, the text between markers as separate parts, no empty text part; a
\* text without markers, an empty text and an input that is no string come
\* back as the one-element list holding the input.
C27_PartsRoundTrip ==
  event = "parseCitations" =>
    IF HasMarkers(args.text)
    THEN /\ Rendered(returned) = args.text.value
         /\ SplitAtMarkers(returned, args.text.value)
    ELSE returned = <<args.text>>

\* C27 (amended): the parts concatenate to the input text when each citation
\* element is replaced by the marker of the input at its position; the
\* element carries the number that marker denotes, so that replacing it by
\* the marker of its number gives back the input when no marker has a leading
\* zero.
C27_PartsPartitionText ==
  event = "parseCitations" =>
    IF HasMarkers(args.text)
    THEN /\ Reassembled(returned, args.text.value) = args.text.value
         /\ SplitAtMarkers(returned, args.text.value)
         /\ \A k \in 1..Len(returned) :
              returned[k].type = "CitationLink" =>
                LET marker == MarkerAt(args.text.value, returned[k]) IN
                MarkerOf(returned[k])
                  = <<"[">>
                    \o StripZeros(SubSeq(marker, 2, Len(marker) - 1))
                    \o <<"]">>
         /\ ~LeadingZero(args.text.value)
              => Rendered(returned) = args.text.value
    ELSE returned = <<args.text>>

\* a text with two interior markers and text on both sides gave 5 parts
C27_Witness ==
  /\ event = "parseCitations"
  /\ args.text.value = <<"x", "[", "1", "]", "x", "[", "1", "]", "x">>
  /\ Len(returned) = 5
  /\ returned[2].type = "CitationLink"
  /\ returned[4].type = "CitationLink"
  /\ returned[5].value = <<"x">>

\* the content of a source can be read from the article: it is a field of
\* the article or of an object the article holds besides its three texts
ContentReachable(article) ==
  \/ "content" \in DOMAIN article
  \/ \E f \in DOMAIN article \ {"title", "date", "url"} :
       "content" \in DOMAIN article[f]

\* C28: renderSourcesList returns nothing for an empty or undefined source
\* list; for a non-empty list the carousel gets one article per source, in
\* order, with the source's title, date and url, and the source's content is
\* neither a field of the article nor reachable from it.
C28_ArticlesCarryNoContent ==
  event = "renderSourcesList" =>
    IF args.type = "undefined" \/ args.value = <<>>
    THEN returned.type = "null"
    ELSE /\ returned.type = "ArticleCarousel"
         /\ Len(returned.articles) = Len(args.value)
         /\ \A k \in 1..Len(args.value) :
              LET source == args.value[k]
                  article == returned.articles[k]
              IN /\ "title" \in DOMAIN source => article.title = source.title
                 /\ "date" \in DOMAIN source => article.date = source.date
                 /\ "url" \in DOMAIN source => article.url = source.url
                 /\ ~ContentReachable(article)

\* C29: when a stream_complete frame without fullContent is applied to the
\* streaming message, the message's final content is what the chunks before
\* it accumulated: it is not lost, emptied or made undefined.
C29_BareCompleteKeepsContent ==
  [][(event' = "handleWebSocketMessage" /\ CompleteApplied(Undefined)
      /\ ContentOf(messages, streamingMessageIdRef) # <<>>)
     => LET k == FindIndex(messages, streamingMessageIdRef) IN
        /\ messages'[k].content = messages[k].content
        /\ ~messages'[k].isStreaming]_vars

\* the lines of a body, by position: line k runs between the newlines (or
\* ends of the body) number k - 1 and k
NewlinesBefore(body, i) ==
  Cardinality({j \in 1..(i - 1) : body[j] = "\n"})

BodyLine(body, k) ==
  SelectSeq([i \in 1..Len(body) |->
               IF body[i] # "\n" /\ NewlinesBefore(body, i) = k - 1
               THEN <<body[i]>> ELSE <<>>],
            LAMBDA c : c # <<>>)

RECURSIVE Flatten(_)
Flatten(s) == IF s = <<>> THEN <<>> ELSE Head(s) \o Flatten(Tail(s))

\* the results of the data lines of the body, in body order
BodyResults(body) ==
  Flatten([k \in 1..(NewlinesBefore(body, Len(body) + 1) + 1) |->
             LineResults(Flatten(BodyLine(body, k)))])

\* C30: the records the pull transport delivers do not depend on how the
\* body is cut into reads: whatever the split, every data line of the body is
\* parsed and delivered once, in body order, a line that spans two reads and
\* a final line without a newline included.
C30_DeliveryIndependentOfSplit ==
  event = "readEnd" => returned.delivered = BodyResults(args.body)

\* the same for the bodies whose last line ends with a newline
C30_TerminatedLinesDelivered ==
  (event = "readEnd"
   /\ (args.body = <<>> \/ args.body[Len(args.body)] = "\n"))
  => returned.delivered = BodyResults(args.body)

\* two data lines were delivered although each was cut by a read
C30_SpanningWitness ==
  /\ event = "readEnd"
  /\ args.body = DataLine("a") \o <<"\n">> \o DataLine("b") \o <<"\n">>
  /\ Len(args.reads) = 3
  /\ Len(args.reads[1]) = 2
  /\ Len(args.reads[2]) = 7
  /\ returned.delivered = <<"a", "b">>

\* how many cancellation notices a content holds
NoticeCount(content) ==
  IF content = Undefined THEN 0
  ELSE Cardinality({k \in 1..Len(content) :
                      content[k] = CancelNotice[Len(CancelNotice)]})

\* C31: handleStopGeneration is idempotent on the message list: called with
\* no active turn (also right after a cancel) it changes no message, so that
\* no message ever holds the cancellation notice twice, and after it
\* canSendMessage is true.
C31_StopIsIdempotent ==
  [][event' = "handleStopGeneration" =>
       /\ streamingMessageIdRef = Null => messages' = messages
       /\ canSendMessage'
       /\ \A k \in 1..Len(messages') :
            NoticeCount(messages'[k].content) <= 1]_vars

\* handleStopGeneration was called with no active turn: the turn's message is
\* complete and carries no notice
C31_Witness ==
  /\ event = "handleStopGeneration"
  /\ streamingMessageIdRef = Null
  /\ canSendMessage
  /\ Len(messages) = 2
  /\ messages[2].content \in FullContents
  /\ NoticeCount(messages[2].content) = 0
  /\ ~messages[2].isStreaming

\* the positions in all of the messages that entry stands for: same content
\* and role, and none of the three flags
Origins(all, entry) ==
  {k \in 1..Len(all) :
     /\ all[k].content = entry.content
     /\ (all[k].type = "user") = (entry.role = "user")
     /\ ~all[k].isLoading
     /\ ~all[k].isStreaming
     /\ ~all[k].isError}

\* C32: the chat history sent with a turn holds no message that is loading,
\* streaming or marked as an error: every entry stands for an earlier user or
\* finished assistant message, the entries are in list order without gaps,
\* and the last entry is the user message of the current turn.
C32_HistoryHoldsFinishedMessages ==
  (event = "BuildHistory")
  => LET all == messages \o <<NewMessage(UserMsgId(1), "user",
                                         Trim(inputValue), FALSE, FALSE,
                                         FALSE)>>
         h == trimmedChatHistory
         at(j) == CHOOSE k \in Origins(all, h[j]) : TRUE
     IN /\ Len(h) >= 1
        /\ \A j \in 1..Len(h) : Cardinality(Origins(all, h[j])) = 1
        /\ \A j \in 1..(Len(h) - 1) :
             /\ at(j) < at(j + 1)
             /\ \A k \in (at(j) + 1)..(at(j + 1) - 1) :
                  all[k].isLoading \/ all[k].isStreaming \/ all[k].isError
        /\ at(Len(h)) = Len(all)
        /\ h[Len(h)].role = "user"
        /\ h[Len(h)].content = <<"q">>

\* a history was built from a list in which a message between two kept ones
\* is marked as an error
C32_Witness ==
  /\ event = "BuildHistory"
  /\ Len(messages) = 6
  /\ messages[4].isError
  /\ Len(trimmedChatHistory) = 6
  /\ trimmedChatHistory[3].content = messages[3].content
  /\ trimmedChatHistory[4].content = messages[5].content
  /\ trimmedChatHistory[6].role = "user"

\* the placeholder of stream o is no longer in the list: the list was emptied
\* by a reset or a change of conversation after the stream was started
Abandoned(o) == \A k \in 1..Len(messages) : messages[k].id # o

\* C33: resetChat, or conversationId becoming null, leaves the list empty,
\* the streaming message id null and the gate open; a frame of a stream that
\* was started before the list was emptied adds no message and changes no
\* message afterwards, also when a new turn has been started since.
C33_ResetIsolatesOldStream ==
  [][/\ (event' = "resetChat"
         \/ (event' = "ConversationChanged" /\ conversationId' = Null))
        => /\ messages' = <<>>
           /\ streamingMessageIdRef' = Null
           /\ canSendMessage'
     /\ event' = "handleWebSocketMessage"
        => \A o \in wsStreams, t \in FrameTypes : \A d \in FrameData(t) :
             (Abandoned(o) /\ handleWebSocketMessage(o, t, d))
             => messages' = messages]_vars

\* C34: the text RealTimeTyping displays is at every step a prefix of the
\* current content, and when typing has stopped it equals the content, also
\* when an extension of the content arrives while the previous content is
\* still being typed out.
C34_DisplayedIsPrefixOfContent ==
  /\ StartsWith(contentProp, displayedContent)
  /\ ~isTyping => displayedContent = contentProp

C36_RestartIsolatesFlows ==
  [][/\ \A k \in 1..Len(steps') : steps'[k].flow = flow'
     /\ (event' = "FlowTimeout" /\ Len(steps') > Len(steps)) => isThinking]_vars

\* C37: a conversation whose deleteConversation has returned, whether the
\* backend call succeeded or not, is absent from the list and stays absent
\* after every later refresh and loadMore; and the list never holds two
\* entries with the same id.
C37_DeletionIsDurable ==
  /\ \A call \in deleteCalls :
       call.pc = "returned"
       => \A k \in 1..Len(conversations) : conversations[k].id # call.id
  /\ \A j, k \in 1..Len(conversations) :
       j # k => conversations[j].id # conversations[k].id

====
